---- MODULE Spec2Model ----
(***************************************************************************)
(* Model of the Inbox Lister lambda (src/src/inbox_lister/lambda_function.py)*)
(* Mailbox validation, team filtering and priority sorting are pure         *)
(* functions of their arguments: a behaviour draws one call (function and   *)
(* arguments) in Init and the matching action applies the function.         *)
(*                                                                         *)
(* JSON values are records [t, v]: t is the Python type, v the payload.     *)
(* Python strings are sequences of one-character strings, so that strip(),  *)
(* lower(), str() and string comparison are computed, not assumed.          *)
(***************************************************************************)
EXTENDS Integers, Sequences, FiniteSets, TLC

VARIABLES pc, call, arg, arg2, arg3, ret, exc, io

vars == <<pc, call, arg, arg2, arg3, ret, exc, io>>

----------------------------------------------------------------------------
(* Bounds of the model *)

\* longest mailbox list inside a configuration document
MaxEntries == 2

\* longest mailbox sequence handed to the filter and to the sort
MaxSeqLen == 3

----------------------------------------------------------------------------
(* Python values *)

Null == [t |-> "null", v |-> 0]

VStr(s) == [t |-> "str", v |-> s]

VInt(n) == [t |-> "int", v |-> n]

VBool(b) == [t |-> "bool", v |-> b]

VList(l) == [t |-> "list", v |-> l]

VDict(d) == [t |-> "dict", v |-> d]

\* the float num / den, as true division computes it
VFloat(num, den) == [t |-> "float", v |-> <<num, den>>]

\* bool(x): None, "", 0, False, [] and {} are falsy
Truthy(x) ==
    CASE x.t = "null" -> FALSE
      [] x.t = "str"  -> x.v # <<>>
      [] x.t = "int"  -> x.v # 0
      [] x.t = "bool" -> x.v
      [] x.t = "list" -> x.v # <<>>
      [] x.t = "dict" -> DOMAIN x.v # {}

\* dict.get(key, default)
Get(d, key, default) == IF key \in DOMAIN d THEN d[key] ELSE default

----------------------------------------------------------------------------
(* Python strings *)

UpperChars == <<"A","B","C","D","E","F","G","H","I","J","K","L","M",
                "N","O","P","Q","R","S","T","U","V","W","X","Y","Z">>

LowerChars == <<"a","b","c","d","e","f","g","h","i","j","k","l","m",
                "n","o","p","q","r","s","t","u","v","w","x","y","z">>

DigitChars == <<"0","1","2","3","4","5","6","7","8","9">>

WhitespaceChars == {" ", "\t", "\n"}

\* code-point order of the characters the model uses
Alphabet == <<"\t", "\n", " ", "-", ".">> \o DigitChars \o <<":", "@">> \o UpperChars
                \o <<"_">> \o LowerChars

Ord(c) == CHOOSE i \in 1..Len(Alphabet) : Alphabet[i] = c

LowerChar(c) ==
    IF \E i \in 1..26 : UpperChars[i] = c
    THEN LowerChars[CHOOSE i \in 1..26 : UpperChars[i] = c]
    ELSE c

\* str.lower()
Lower(s) == [i \in 1..Len(s) |-> LowerChar(s[i])]

RECURSIVE LStrip(_)
LStrip(s) ==
    IF s # <<>> /\ Head(s) \in WhitespaceChars THEN LStrip(Tail(s)) ELSE s

RECURSIVE RStrip(_)
RStrip(s) ==
    IF s # <<>> /\ s[Len(s)] \in WhitespaceChars
    THEN RStrip(SubSeq(s, 1, Len(s) - 1))
    ELSE s

\* str.strip()
Strip(s) == RStrip(LStrip(s))

RECURSIVE NatToStr(_)
NatToStr(n) ==
    IF n < 10 THEN <<DigitChars[n + 1]>>
    ELSE NatToStr(n \div 10) \o <<DigitChars[(n % 10) + 1]>>

IntToStr(n) == IF n < 0 THEN <<"-">> \o NatToStr(0 - n) ELSE NatToStr(n)

\* str(x) for the scalar values
PyStr(x) ==
    CASE x.t = "str"  -> x.v
      [] x.t = "int"  -> IntToStr(x.v)
      [] x.t = "bool" -> IF x.v THEN <<"T","r","u","e">> ELSE <<"F","a","l","s","e">>
      [] x.t = "null" -> <<"N","o","n","e">>

\* s1 < s2 on Python strings: lexicographic by code point
RECURSIVE StrLess(_, _)
StrLess(s1, s2) ==
    IF s2 = <<>> THEN FALSE
    ELSE IF s1 = <<>> THEN TRUE
    ELSE IF Head(s1) # Head(s2) THEN Ord(Head(s1)) < Ord(Head(s2))
    ELSE StrLess(Tail(s1), Tail(s2))

----------------------------------------------------------------------------
(* Exceptions: the Python class, the EAWS codes of the message from the      *)
(* outermost to the innermost, and the field names an EAWS012 message lists  *)

NoExc == [type |-> "none", codes |-> <<>>, fields |-> <<>>]

SystemException(codes, fields) ==
    [type |-> "SystemException", codes |-> codes, fields |-> fields]

TypeError == [type |-> "TypeError", codes |-> <<>>, fields |-> <<>>]

AttributeError == [type |-> "AttributeError", codes |-> <<>>, fields |-> <<>>]

Return(x) == [exc |-> NoExc, val |-> x]

Raise(e) == [exc |-> e, val |-> Null]

----------------------------------------------------------------------------
(* Module-level constants of lambda_function.py *)

NO_TEAM_ID == <<"N","O","_","T","E","A","M","_","I","D">>

RequiredFields == <<"mailboxName", "mailboxType", "teamID">>

SupportedTypes == {<<"o","p","s">>, <<"c","l","a","i","m","s">>}

DefaultPriority == 5

DefaultProcessingLimit == 75

MaxProcessingLimit == 100

DefaultRetryCount == 3

DefaultCategory == <<"d","e","f","a","u","l","t">>

----------------------------------------------------------------------------
(* _validate_single_mailbox *)

\* a missing-field check that only looks at the presence of the key
MissingFields_AbsentOnly(d) ==
    SelectSeq(RequiredFields, LAMBDA field : field \notin DOMAIN d)

\* the loop that collects missing_fields: absent or falsy
MissingFields(d) ==
    SelectSeq(RequiredFields,
              LAMBDA field : field \notin DOMAIN d \/ ~Truthy(d[field]))

\* defaulting written as "value or default", which replaces falsy values
DefaultedMailbox_FalsyToDefault(d, mailbox_type) ==
    LET GetOr(key, default) ==
            IF key \in DOMAIN d /\ Truthy(d[key]) THEN d[key] ELSE default
    IN  [ mailboxName     |-> VStr(Strip(PyStr(d["mailboxName"]))),
          mailboxType     |-> VStr(mailbox_type),
          teamID          |-> VStr(Strip(PyStr(d["teamID"]))),
          isActive        |-> GetOr("isActive", VBool(TRUE)),
          priority        |-> GetOr("priority", VInt(DefaultPriority)),
          processingLimit |-> GetOr("processingLimit", VInt(DefaultProcessingLimit)),
          retryCount      |-> GetOr("retryCount", VInt(DefaultRetryCount)),
          description     |-> GetOr("description", VStr(<<>>)),
          category        |-> GetOr("category", VStr(DefaultCategory)) ]

\* the validated_mailbox literal: trimmed name and team, defaults for the rest
DefaultedMailbox(d, mailbox_type) ==
    [ mailboxName     |-> VStr(Strip(PyStr(d["mailboxName"]))),
      mailboxType     |-> VStr(mailbox_type),
      teamID          |-> VStr(Strip(PyStr(d["teamID"]))),
      isActive        |-> Get(d, "isActive", VBool(TRUE)),
      priority        |-> Get(d, "priority", VInt(DefaultPriority)),
      processingLimit |-> Get(d, "processingLimit", VInt(DefaultProcessingLimit)),
      retryCount      |-> Get(d, "retryCount", VInt(DefaultRetryCount)),
      description     |-> Get(d, "description", VStr(<<>>)),
      category        |-> Get(d, "category", VStr(DefaultCategory)) ]

\* x > 100 is defined for numbers only (bool is an int in Python)
Comparable(x) == x.t \in {"int", "bool"}

NumOf(x) == IF x.t = "bool" THEN (IF x.v THEN 1 ELSE 0) ELSE x.v

\* a clamp to the range 0..100
ClampProcessingLimit_BothSides(vm) ==
    IF NumOf(vm.processingLimit) > MaxProcessingLimit
    THEN [vm EXCEPT !.processingLimit = VInt(MaxProcessingLimit)]
    ELSE IF NumOf(vm.processingLimit) < 0
    THEN [vm EXCEPT !.processingLimit = VInt(0)]
    ELSE vm

\* if processingLimit > 100: processingLimit = min(processingLimit, 100)
ClampProcessingLimit(vm) ==
    IF NumOf(vm.processingLimit) > MaxProcessingLimit
    THEN [vm EXCEPT !.processingLimit =
              VInt(IF NumOf(vm.processingLimit) < MaxProcessingLimit
                   THEN NumOf(vm.processingLimit) ELSE MaxProcessingLimit)]
    ELSE vm

validate_single_mailbox(mailbox, index) ==
    IF mailbox.t # "dict"
    THEN Raise(TypeError)   \* "field not in mailbox" on None or a number
    ELSE
    LET d == mailbox.v
        missing_fields == MissingFields(d)
    IN  IF missing_fields # <<>>
        THEN Raise(SystemException(<<"EAWS012">>, missing_fields))
        ELSE IF d["mailboxType"].t # "str"
        THEN Raise(AttributeError)   \* no .lower() on a non-string
        ELSE
        LET mailbox_type == Lower(d["mailboxType"].v)
        IN  IF mailbox_type \notin SupportedTypes
            THEN Raise(SystemException(<<"EAWS015">>, <<>>))
            ELSE
            LET validated_mailbox == DefaultedMailbox(d, mailbox_type)
            IN  IF ~Comparable(validated_mailbox.processingLimit)
                THEN Raise(TypeError)   \* "x" > 100, None > 100
                ELSE Return(VDict(ClampProcessingLimit(validated_mailbox)))

----------------------------------------------------------------------------
(* validate_mailbox_configuration *)

CandidateKeys == <<"inboxes", "boxes", "mailbox_list">>

\* a resolution that falls through to the next key when a value is empty
ResolveMailboxes_FirstNonEmpty(mailbox_config) ==
    IF mailbox_config.t = "list" THEN mailbox_config
    ELSE
    LET d == mailbox_config.v
        keys == SelectSeq(<<"mailboxes">> \o CandidateKeys,
                          LAMBDA key : key \in DOMAIN d /\ Truthy(d[key]))
    IN  IF keys # <<>> THEN d[Head(keys)] ELSE VList(<<>>)

\* the value bound to the local "mailboxes"; mailbox_config is a list or a dict
ResolveMailboxes(mailbox_config) ==
    IF mailbox_config.t = "list" THEN mailbox_config
    ELSE
    LET d == mailbox_config.v
        present == SelectSeq(CandidateKeys, LAMBDA key : key \in DOMAIN d)
    IN  IF "mailboxes" \in DOMAIN d THEN d["mailboxes"]
        ELSE IF present # <<>> THEN d[Head(present)]
        ELSE VList(<<>>)

\* the for loop: a SystemException skips the entry, any other fault leaves
\* the loop
RECURSIVE ValidateEach(_, _, _)
ValidateEach(mailboxes, idx, validated_mailboxes) ==
    IF idx > Len(mailboxes) THEN Return(validated_mailboxes)
    ELSE
    LET r == validate_single_mailbox(mailboxes[idx], idx - 1)
    IN  IF r.exc.type = "none"
        THEN ValidateEach(mailboxes, idx + 1, Append(validated_mailboxes, r.val))
        ELSE IF r.exc.type = "SystemException"
        THEN ValidateEach(mailboxes, idx + 1, validated_mailboxes)
        ELSE Raise(r.exc)

\* the body of the try block
ValidateConfigBody(mailbox_config) ==
    IF mailbox_config.t \notin {"dict", "list"}
    THEN Raise(SystemException(<<"EAWS009">>, <<>>))
    ELSE
    LET mailboxes == ResolveMailboxes(mailbox_config)
    IN  IF ~Truthy(mailboxes)
        THEN Raise(SystemException(<<"EAWS010">>, <<>>))
        ELSE IF mailboxes.t # "list"
        THEN Raise(TypeError)   \* enumerate() of a number
        ELSE
        LET r == ValidateEach(mailboxes.v, 1, <<>>)
        IN  IF r.exc.type # "none" THEN r
            ELSE IF r.val = <<>>
            THEN Raise(SystemException(<<"EAWS011">>, <<>>))
            ELSE Return(VList(r.val))

\* except Exception as e: raise SystemException(f"EAWS009: ...: {str(e)}")
validate_mailbox_configuration(mailbox_config) ==
    LET r == ValidateConfigBody(mailbox_config)
    IN  IF r.exc.type = "none" THEN r
        ELSE Raise(SystemException(<<"EAWS009">> \o r.exc.codes, <<>>))

----------------------------------------------------------------------------
(* filter_mailboxes_by_team *)

\* a filter that compares team identifiers without regard to case
filter_mailboxes_by_team_IgnoreCase(mailboxes, team_id_filter) ==
    IF ~Truthy(team_id_filter) \/ team_id_filter = VStr(NO_TEAM_ID)
    THEN mailboxes
    ELSE VList(SelectSeq(mailboxes.v,
             LAMBDA mailbox :
                 Lower(mailbox.v["teamID"].v) = Lower(team_id_filter.v)))

filter_mailboxes_by_team(mailboxes, team_id_filter) ==
    IF ~Truthy(team_id_filter) \/ team_id_filter = VStr(NO_TEAM_ID)
    THEN mailboxes
    ELSE VList(SelectSeq(mailboxes.v,
             LAMBDA mailbox : mailbox.v["teamID"] = team_id_filter))

----------------------------------------------------------------------------
(* sort_mailboxes_by_priority *)

\* a key that orders an entry without priority after every other entry
SortKeyLess_MissingLast(x, y) ==
    LET Key(m) == IF "priority" \in DOMAIN m.v THEN m.v["priority"].v ELSE 1000000
    IN  \/ Key(x) < Key(y)
        \/ Key(x) = Key(y) /\ StrLess(x.v["mailboxName"].v, y.v["mailboxName"].v)

\* a key made of the priority alone
SortKeyLess_PriorityOnly(x, y) ==
    Get(x.v, "priority", VInt(DefaultPriority)).v
        < Get(y.v, "priority", VInt(DefaultPriority)).v

\* key(x) < key(y) for key = (x.get("priority", 5), x["mailboxName"])
SortKeyLess(x, y) ==
    LET px == Get(x.v, "priority", VInt(DefaultPriority)).v
        py == Get(y.v, "priority", VInt(DefaultPriority)).v
    IN  \/ px < py
        \/ px = py /\ StrLess(x.v["mailboxName"].v, y.v["mailboxName"].v)

\* sorted() is stable: x goes after every element whose key is not greater
RECURSIVE InsertByKey(_, _)
InsertByKey(sorted, x) ==
    IF sorted = <<>> THEN <<x>>
    ELSE IF SortKeyLess(x, Head(sorted)) THEN <<x>> \o sorted
    ELSE <<Head(sorted)>> \o InsertByKey(Tail(sorted), x)

RECURSIVE SortedByKey(_)
SortedByKey(s) ==
    IF s = <<>> THEN <<>>
    ELSE InsertByKey(SortedByKey(SubSeq(s, 1, Len(s) - 1)), s[Len(s)])

sort_mailboxes_by_priority(mailboxes) == VList(SortedByKey(mailboxes.v))

----------------------------------------------------------------------------
(* prepare_mailbox_list_output *)

\* os.path.basename(os.path.dirname(__file__))
function_name == <<"i","n","b","o","x","_","l","i","s","t","e","r">>

\* uki_constants["mail_box_file_path"], a constant of the deployment
mail_box_file_path == <<"m","a","i","l","b","o","x","e","s">>

\* len([m for m in mailboxes if m["mailboxType"] == type])
CountType(mailboxes, type) ==
    Cardinality({i \in 1..Len(mailboxes) : mailboxes[i].v["mailboxType"] = VStr(type)})

\* len([m for m in mailboxes if m.get("isActive", default)])
CountActive(mailboxes, default) ==
    Cardinality({i \in 1..Len(mailboxes) :
                   Truthy(Get(mailboxes[i].v, "isActive", VBool(default)))})

\* sum(m.get("priority", 5) for m in mailboxes)
RECURSIVE SumPriority(_)
SumPriority(mailboxes) ==
    IF mailboxes = <<>> THEN 0
    ELSE Get(Head(mailboxes).v, "priority", VInt(DefaultPriority)).v
             + SumPriority(Tail(mailboxes))

\* a summary that counts a mailbox without isActive as inactive
Summary_MissingInactive(mailboxes) ==
    [ total_mailboxes  |-> VInt(Len(mailboxes)),
      ops_mailboxes    |-> VInt(CountType(mailboxes, <<"o","p","s">>)),
      claims_mailboxes |-> VInt(CountType(mailboxes, <<"c","l","a","i","m","s">>)),
      active_mailboxes |-> VInt(CountActive(mailboxes, FALSE)),
      average_priority |-> IF mailboxes # <<>>
                           THEN VFloat(SumPriority(mailboxes), Len(mailboxes))
                           ELSE VInt(0) ]

\* the "summary" entry of the output
Summary(mailboxes) ==
    [ total_mailboxes  |-> VInt(Len(mailboxes)),
      ops_mailboxes    |-> VInt(CountType(mailboxes, <<"o","p","s">>)),
      claims_mailboxes |-> VInt(CountType(mailboxes, <<"c","l","a","i","m","s">>)),
      active_mailboxes |-> VInt(CountActive(mailboxes, TRUE)),
      average_priority |-> IF mailboxes # <<>>
                           THEN VFloat(SumPriority(mailboxes), Len(mailboxes))
                           ELSE VInt(0) ]

prepare_mailbox_list_output(mailboxes, correlation_id, s3_bucket_name) ==
    VDict([ status         |-> VStr(<<"s","u","c","c","e","s","s">>),
            correlation_id |-> correlation_id,
            function_name  |-> VStr(function_name),
            timestamp      |-> Null,
            summary        |-> VDict(Summary(mailboxes.v)),
            mailboxes      |-> mailboxes,
            metadata       |-> VDict([ s3_bucket_name           |-> s3_bucket_name,
                                       config_file              |-> VStr(mail_box_file_path),
                                       processing_limit_default |-> VInt(75),
                                       max_processing_limit     |-> VInt(100) ]) ])

----------------------------------------------------------------------------
(* lambda_handler of the Inbox Lister.  env holds what the collaborators    *)
(* give back during the invocation: env.download is the outcome of           *)
(* download_json_from_s3 (a returned document or a raised fault), env.now    *)
(* the clock reading.  The result carries the collaborator calls in order.   *)

NO_CORRELATION_ID == <<"N","O","_","C","O","R","R","E","L","A","T","I","O","N","_","I","D">>

NO_EMAIL_ID == <<"N","O","_","E","M","A","I","L","_","I","D">>

\* a fault raised by a collaborator; it is not a SystemException
CollaboratorFault == [type |-> "ConnectionError", codes |-> <<>>, fields |-> <<>>]

\* json.dumps(x): the JSON text, named by the value it decodes to
VJson(x) == [t |-> "json", v |-> x]

IoCall(fn, a) == [fn |-> fn, a |-> a]

Outcome(r, calls) == [exc |-> r.exc, val |-> r.val, io |-> calls]

\* the blanket handler turns every fault, its own EAWS008 included, into a
\* SystemException whose message starts with EAWS008
get_mailbox_configuration(s3_bucket_name, correlation_id, team_id, download) ==
    IF download.exc.type # "none"
    THEN Raise(SystemException(<<"EAWS008">> \o download.exc.codes, <<>>))
    ELSE IF ~Truthy(download.val)
    THEN Raise(SystemException(<<"EAWS008", "EAWS008">>, <<>>))
    ELSE Return(download.val)

\* the type of the priority the sort key and the sum read
PriorityType(m) == Get(m.v, "priority", VInt(DefaultPriority)).t

\* sorted() compares the keys of a sequence of two or more entries; "<"
\* between a number and a non-number raises TypeError
SortRaises(mailboxes) ==
    /\ Len(mailboxes) >= 2
    /\ \E i, j \in 1..Len(mailboxes) :
          /\ PriorityType(mailboxes[i]) \in {"int", "bool"}
          /\ PriorityType(mailboxes[j]) \notin {"int", "bool"}

\* sum() adds every priority to a number
SumRaises(mailboxes) ==
    \E i \in 1..Len(mailboxes) : PriorityType(mailboxes[i]) \notin {"int", "bool"}

\* step 5 and the response, given the sorted mailboxes
InboxListerRespond(sorted_mailboxes, correlation_id, s3_bucket_name, now) ==
    IF SumRaises(sorted_mailboxes.v) THEN Raise(TypeError)
    ELSE Return(VDict(
             [ statusCode |-> VInt(200),
               body |-> VJson(VDict(
                   [prepare_mailbox_list_output(
                        sorted_mailboxes, correlation_id, s3_bucket_name).v
                    EXCEPT !["timestamp"] = VStr(now \o <<"Z">>)])) ]))

\* step 4 onwards, given the filtered mailboxes
InboxListerSort(filtered_mailboxes, correlation_id, s3_bucket_name, now) ==
    IF SortRaises(filtered_mailboxes.v) THEN Raise(TypeError)
    ELSE InboxListerRespond(sort_mailboxes_by_priority(filtered_mailboxes),
                            correlation_id, s3_bucket_name, now)

\* a handler that judges emptiness once more after the team filter
InboxListerFilter_EmptyFails(validated, correlation_id, team_id, s3_bucket_name, now) ==
    IF validated.exc.type # "none" THEN validated
    ELSE IF filter_mailboxes_by_team(validated.val, team_id).v = <<>>
    THEN Raise(SystemException(<<"EAWS010">>, <<>>))
    ELSE InboxListerSort(filter_mailboxes_by_team(validated.val, team_id),
                         correlation_id, s3_bucket_name, now)

\* step 3 onwards, given the outcome of the validation
InboxListerFilter(validated, correlation_id, team_id, s3_bucket_name, now) ==
    IF validated.exc.type # "none" THEN validated
    ELSE InboxListerSort(filter_mailboxes_by_team(validated.val, team_id),
                         correlation_id, s3_bucket_name, now)

\* steps 2 to 5 of the handler and the response, given the configuration
InboxListerStages(mailbox_config, correlation_id, team_id, s3_bucket_name, now) ==
    InboxListerFilter(validate_mailbox_configuration(mailbox_config),
                      correlation_id, team_id, s3_bucket_name, now)

\* the call of download_json_from_s3 the retrieval makes
InboxListerRead(event) ==
    <<IoCall("download_json_from_s3",
             [ s3_bucket_name |-> Get(event.v, "s3_bucket_name", Null),
               correlation_id |-> Get(event.v, "correlation_id", VStr(NO_CORRELATION_ID)),
               team_id |-> Get(event.v, "team_id", VStr(NO_TEAM_ID)) ])>>

\* step 2 onwards, given the outcome of the retrieval
InboxListerAfterRetrieval(mailbox_config, event, now) ==
    IF mailbox_config.exc.type # "none" THEN mailbox_config
    ELSE InboxListerStages(mailbox_config.val,
                           Get(event.v, "correlation_id", VStr(NO_CORRELATION_ID)),
                           Get(event.v, "team_id", VStr(NO_TEAM_ID)),
                           Get(event.v, "s3_bucket_name", Null), now)

\* a try block that reads the configuration before it looks at the bucket name
InboxListerTry_ReadFirst(event, env) ==
    IF env.download.exc.type = "none" /\ Truthy(env.download.val)
       /\ ~Truthy(Get(event.v, "s3_bucket_name", Null))
    THEN Outcome(Raise(SystemException(<<"EAWS014">>, <<>>)), InboxListerRead(event))
    ELSE Outcome(InboxListerAfterRetrieval(
                     get_mailbox_configuration(
                         Get(event.v, "s3_bucket_name", Null),
                         Get(event.v, "correlation_id", VStr(NO_CORRELATION_ID)),
                         Get(event.v, "team_id", VStr(NO_TEAM_ID)), env.download),
                     event, env.now),
                 InboxListerRead(event))

\* the try block
InboxListerTry(event, env) ==
    IF ~Truthy(Get(event.v, "s3_bucket_name", Null))
    THEN Outcome(Raise(SystemException(<<"EAWS014">>, <<>>)), <<>>)
    ELSE Outcome(InboxListerAfterRetrieval(
                     get_mailbox_configuration(
                         Get(event.v, "s3_bucket_name", Null),
                         Get(event.v, "correlation_id", VStr(NO_CORRELATION_ID)),
                         Get(event.v, "team_id", VStr(NO_TEAM_ID)), env.download),
                     event, env.now),
                 InboxListerRead(event))

\* a generic clause that lets the fault go on to the caller
InboxListerExcept_Reraise(r, event) == r

\* a SystemException is re-raised; any other fault goes to handle_exception
\* and the handler falls off its end, returning None
InboxListerExcept(r, event) ==
    IF r.exc.type \in {"none", "SystemException"} THEN r
    ELSE Outcome(Return(Null),
             Append(r.io,
                    IoCall("handle_exception",
                           [ err |-> r.exc,
                             correlation_id |-> Get(event.v, "correlation_id", VStr(NO_CORRELATION_ID)),
                             s3_bucket_name |-> Get(event.v, "s3_bucket_name", VStr(<<>>)),
                             email_id |-> VStr(NO_EMAIL_ID),
                             team_id |-> Get(event.v, "team_id", VStr(NO_TEAM_ID)) ])))

inbox_lister_lambda_handler(event, env) == InboxListerExcept(InboxListerTry(event, env), event)

----------------------------------------------------------------------------
(* lambda_handler of the Email Receiver (email_receiver/handler.py) *)

\* a Python str held whole: no character operation is applied to it
VText(s) == [t |-> "text", v |-> s]

\* a bytes object: a value json.dumps cannot encode
VBytes(s) == [t |-> "bytes", v |-> s]

TypeName(x) ==
    CASE x.t = "null" -> "NoneType"
      [] x.t \in {"str", "text"} -> "str"
      [] OTHER -> x.t

\* a fault with the interpreter's message
Fault(type, message) == [type |-> type, codes |-> <<>>, fields |-> <<message>>]

\* str(error); the message of a KeyError is the repr of the key
ExcStr(e) == IF e.type = "KeyError" THEN "'" \o e.fields[1] \o "'" ELSE e.fields[1]

\* x[key] for a string key
Subscript(x, key) ==
    IF x.t = "dict"
    THEN IF key \in DOMAIN x.v THEN Return(x.v[key]) ELSE Raise(Fault("KeyError", key))
    ELSE Raise(Fault("TypeError", "'" \o TypeName(x) \o "' object is not subscriptable"))

\* json.dumps succeeds on the values JSON has
RECURSIVE JsonEncodable(_)
JsonEncodable(x) ==
    CASE x.t = "list" -> \A i \in 1..Len(x.v) : JsonEncodable(x.v[i])
      [] x.t = "dict" -> \A k \in DOMAIN x.v : JsonEncodable(x.v[k])
      [] x.t = "bytes" -> FALSE
      [] OTHER -> TRUE

Response(statusCode, body) ==
    VDict([statusCode |-> VInt(statusCode), body |-> VJson(VDict(body))])

S_aws_s3 == <<"a","w","s",":","s","3">>

\* a test that takes every record carrying an eventSource for an S3 record
IsFromS3_AnySource(record) == "eventSource" \in DOMAIN record.v

\* record.get('eventSource') == 'aws:s3'
IsFromS3(record) == Get(record.v, "eventSource", Null) = VStr(S_aws_s3)

\* an extraction that reads the sub-fields with a default
ProcessS3Record_Defaulting(record) ==
    LET s3 == Get(record.v, "s3", VDict(<<>>))
        bucket == IF s3.t = "dict" THEN Get(s3.v, "bucket", VDict(<<>>)) ELSE VDict(<<>>)
        object == IF s3.t = "dict" THEN Get(s3.v, "object", VDict(<<>>)) ELSE VDict(<<>>)
        bucket_name == IF bucket.t = "dict" THEN Get(bucket.v, "name", VStr(<<>>)) ELSE VStr(<<>>)
        file_key == IF object.t = "dict" THEN Get(object.v, "key", VStr(<<>>)) ELSE VStr(<<>>)
    IN  Return(Response(200,
            [ status |-> VText("success"),
              message |-> VText("Email received for processing"),
              details |-> VDict([ bucket |-> bucket_name,
                                  file |-> file_key,
                                  processed_at |-> VText("2024-02-04"),
                                  next_step |-> VText("Send to extraction queue") ]) ]))

\* the body of the loop for an S3 record: the two subscript chains, the
\* file type printed from file_key.split, and the success response
ProcessS3Record(record) ==
    LET s3 == Subscript(record, "s3")
        bucket == Subscript(s3.val, "bucket")
        bucket_name == Subscript(bucket.val, "name")
        object == Subscript(s3.val, "object")
        file_key == Subscript(object.val, "key")
    IN  IF s3.exc # NoExc THEN s3
        ELSE IF bucket.exc # NoExc THEN bucket
        ELSE IF bucket_name.exc # NoExc THEN bucket_name
        ELSE IF object.exc # NoExc THEN object
        ELSE IF file_key.exc # NoExc THEN file_key
        ELSE IF file_key.val.t # "str"
        THEN    Raise(Fault("AttributeError",
                      "'" \o TypeName(file_key.val) \o "' object has no attribute 'split'"))
        ELSE
                Return(Response(200,
                    [ status |-> VText("success"),
                      message |-> VText("Email received for processing"),
                      details |-> VDict([ bucket |-> bucket_name.val,
                                          file |-> file_key.val,
                                          processed_at |-> VText("2024-02-04"),
                                          next_step |-> VText("Send to extraction queue") ]) ]))

\* the position at which the loop over the records ends early: the first
\* record that is not a mapping (record.get faults) or that is from S3;
\* 0 when the loop runs to the end
StopIndex(records) ==
    LET stops == {i \in 1..Len(records) :
                    records[i].t # "dict" \/ IsFromS3(records[i])}
    IN  IF stops = {} THEN 0 ELSE CHOOSE i \in stops : \A j \in stops : i <= j

\* the records the loop has taken up, in order
Examined(n) == [i \in 1..n |-> IoCall("record", i)]

\* a loop that gives up at the first record that is not from S3
ScanRecords_StopAtFirst(records) ==
    IF records = <<>> THEN Outcome(Return(Response(400, [error |-> VText("No S3 events found")])), <<>>)
    ELSE IF records[1].t # "dict"
    THEN Outcome(Raise(Fault("AttributeError",
             "'" \o TypeName(records[1]) \o "' object has no attribute 'get'")), Examined(1))
    ELSE IF IsFromS3(records[1]) THEN Outcome(ProcessS3Record(records[1]), Examined(1))
    ELSE Outcome(Return(Response(400, [error |-> VText("No S3 events found")])), Examined(1))

\* for record in event['Records']: ... and the response after the loop
ScanRecords(records) ==
    LET k == StopIndex(records)
    IN  IF k = 0
        THEN Outcome(Return(Response(400, [error |-> VText("No S3 events found")])),
                     Examined(Len(records)))
        ELSE IF records[k].t # "dict"
        THEN Outcome(Raise(Fault("AttributeError",
                 "'" \o TypeName(records[k]) \o "' object has no attribute 'get'")),
                 Examined(k))
        ELSE Outcome(ProcessS3Record(records[k]), Examined(k))

\* the try block
EmailReceiverTry(event) ==
    IF event.t \notin {"dict", "list"}
    THEN Outcome(Raise(Fault("TypeError",
             "argument of type '" \o TypeName(event) \o "' is not iterable")), <<>>)
    ELSE IF event.t = "list" \/ "Records" \notin DOMAIN event.v
    THEN Outcome(Return(Response(400, [error |-> VText("Invalid event - no records")])), <<>>)
    ELSE IF event.v["Records"].t # "list"
    THEN Outcome(Raise(Fault("TypeError",
             "'" \o TypeName(event.v["Records"]) \o "' object is not iterable")), <<>>)
    ELSE ScanRecords(event.v["Records"].v)

\* except Exception: the fault of the try block becomes the 500 response
EmailReceiverExcept(r) ==
    IF r.exc = NoExc THEN r
    ELSE Outcome(Return(Response(500, [ error |-> VText("Internal server error"),
                                        details |-> VText(ExcStr(r.exc)) ])), r.io)

\* line 27 encodes the event before the try block is entered
email_receiver_lambda_handler(event) ==
    IF ~JsonEncodable(event)
    THEN Outcome(Raise(Fault("TypeError", "Object of type bytes is not JSON serializable")), <<>>)
    ELSE EmailReceiverExcept(EmailReceiverTry(event))

----------------------------------------------------------------------------
(* Domain extraction and validation (valid_domains/lambda_fuction.py) *)

\* row[index] on a tuple: positions from 0, negative positions from the end
TupleIndex(row, index) ==
    IF row.t # "list"
    THEN Raise(Fault("TypeError", "'" \o TypeName(row) \o "' object is not subscriptable"))
    ELSE IF index.t # "int"
    THEN Raise(Fault("TypeError", "tuple indices must be integers or slices, not "
                                   \o TypeName(index)))
    ELSE IF index.v >= 0 /\ index.v < Len(row.v) THEN Return(row.v[index.v + 1])
    ELSE IF index.v < 0 /\ 0 - index.v <= Len(row.v)
    THEN Return(row.v[Len(row.v) + index.v + 1])
    ELSE Raise(Fault("IndexError", "tuple index out of range"))

\* row[column_map[name]]
Column(row, column_map, name) ==
    IF name \notin DOMAIN column_map.v THEN Raise(Fault("KeyError", name))
    ELSE TupleIndex(row, column_map.v[name])

\* an entry whose from keeps its surrounding whitespace
DomainEntry_Untrimmed(row, column_map) ==
    LET id == Column(row, column_map, "ID")
        from == Column(row, column_map, "From")
        category == Column(row, column_map, "Category")
    IN  IF id.exc # NoExc THEN id
        ELSE IF from.exc # NoExc THEN from
        ELSE IF category.exc # NoExc THEN category
        ELSE
                Return(VDict([ id |-> VStr(PyStr(id.val)),
                               from |-> VStr(Lower(PyStr(from.val))),
                               category |-> VStr(PyStr(category.val)),
                               is_active |-> VBool(TRUE),
                               validation_date |-> Null ]))

\* the entry built from one row, or the fault of building it
DomainEntry(row, column_map) ==
    LET id == Column(row, column_map, "ID")
        from == Column(row, column_map, "From")
        category == Column(row, column_map, "Category")
    IN  IF id.exc # NoExc THEN id
        ELSE IF from.exc # NoExc THEN from
        ELSE IF category.exc # NoExc THEN category
        ELSE
                Return(VDict([ id |-> VStr(PyStr(id.val)),
                               from |-> VStr(Strip(Lower(PyStr(from.val)))),
                               category |-> VStr(PyStr(category.val)),
                               is_active |-> VBool(TRUE),
                               validation_date |-> Null ]))

\* IndexError and KeyError skip the row; any other fault leaves the loop and
\* is raised again as EAWS017
process_domain_data(rows, column_map) ==
    LET built == [i \in 1..Len(rows.v) |-> DomainEntry(rows.v[i], column_map)]
        Skipped(r) == r.exc.type \in {"IndexError", "KeyError"}
        Kept(r) == r.exc = NoExc
        kept == SelectSeq(built, Kept)
    IN  IF \E i \in 1..Len(built) : ~Kept(built[i]) /\ ~Skipped(built[i])
        THEN Raise(SystemException(<<"EAWS017">>, <<>>))
        ELSE Return(VList([i \in 1..Len(kept) |-> kept[i].val]))

\* sep in s
Contains(s, sep) == \E i \in 1..Len(s) : s[i] = sep

\* the part after the first separator
SplitLast_AfterFirst(s, sep) ==
    IF ~Contains(s, sep) THEN s
    ELSE SubSeq(s, (CHOOSE i \in 1..Len(s) :
                      s[i] = sep /\ \A j \in 1..Len(s) : s[j] = sep => i <= j) + 1, Len(s))

\* s.split(sep)[-1] for a one-character separator
SplitLast(s, sep) ==
    IF ~Contains(s, sep) THEN s
    ELSE SubSeq(s, (CHOOSE i \in 1..Len(s) :
                      s[i] = sep /\ \A j \in 1..Len(s) : s[j] = sep => j <= i) + 1, Len(s))

\* domain.get("from", "")
EmailFrom(domain) == Get(domain.v, "from", VStr(<<>>))

\* the entry passes both format tests of the loop
ValidFormat(domain) ==
    /\ Truthy(EmailFrom(domain))
    /\ Contains(EmailFrom(domain).v, "@")
    /\ SplitLast(EmailFrom(domain).v, "@") # <<>>
    /\ Contains(SplitLast(EmailFrom(domain).v, "@"), ".")

\* domain.copy() with the three added fields
ValidatedDomain(domain) ==
    VDict([k \in DOMAIN domain.v \cup {"domain_part", "is_valid_format", "validation_timestamp"} |->
             CASE k = "domain_part" -> VStr(SplitLast(EmailFrom(domain).v, "@"))
               [] k = "is_valid_format" -> VBool(TRUE)
               [] k = "validation_timestamp" -> Null
               [] OTHER -> domain.v[k]])

validate_and_filter_domains(domains) ==
    IF \E i \in 1..Len(domains.v) :
           domains.v[i].t # "dict"
           \/ (Truthy(EmailFrom(domains.v[i])) /\ EmailFrom(domains.v[i]).t # "str")
    THEN Raise(SystemException(<<"EAWS018">>, <<>>))
    ELSE LET valid == SelectSeq(domains.v, ValidFormat)
         IN  Return(VList([i \in 1..Len(valid) |-> ValidatedDomain(valid[i])]))

----------------------------------------------------------------------------
(* lambda_handler of Valid Domains and its stages.  env holds what the       *)
(* collaborators give back: env.parameters for get_all_parameters,           *)
(* env.download for download_json_from_s3, env.upload_config and             *)
(* env.upload_domains for the two calls of upload_to_s3, env.query for       *)
(* run_stored_procedure, env.set_extra_log_attributes for the call that      *)
(* opens the try block after the identifier is read.                         *)

\* a or b
PyOr(a, b) == IF Truthy(a) THEN a ELSE b

\* a value without .get: parameters.get raises AttributeError
IsMapping(x) == x.t = "dict"

\* event.get('id') or event.get('correlation_id')
EventCorrelationId(event) ==
    PyOr(Get(event.v, "id", Null), Get(event.v, "correlation_id", Null))

get_parameters(correlation_id, outcome) ==
    LET calls == <<IoCall("get_all_parameters", <<>>)>>
    IN  IF outcome.exc # NoExc
        THEN Outcome(Raise(SystemException(<<"EAWS006">> \o outcome.exc.codes, <<>>)), calls)
        ELSE IF ~Truthy(outcome.val)
        THEN Outcome(Raise(SystemException(<<"EAWS006", "EAWS006">>, <<>>)), calls)
        ELSE Outcome(Return(outcome.val), calls)

load_mailbox_configuration(parameters, correlation_id, outcome) ==
    LET s3_bucket_name == Get(parameters.v, "s3_bucket_name", Null)
        calls == <<IoCall("download_json_from_s3",
                          [ s3_bucket_name |-> s3_bucket_name,
                            correlation_id |-> correlation_id ])>>
    IN  IF ~IsMapping(parameters)
        THEN Outcome(Raise(SystemException(<<"EAWS008">>, <<>>)), <<>>)
        ELSE IF ~Truthy(s3_bucket_name)
        THEN Outcome(Raise(SystemException(<<"EAWS008", "EAWS014">>, <<>>)), <<>>)
        ELSE IF outcome.exc # NoExc
        THEN Outcome(Raise(SystemException(<<"EAWS008">> \o outcome.exc.codes, <<>>)), calls)
        ELSE Outcome(Return(VDict(
                 [k \in DOMAIN parameters.v \cup {"inboxes"} |->
                     IF k = "inboxes" THEN outcome.val ELSE parameters.v[k]])), calls)

save_configuration_to_s3(parameters, correlation_id, outcome) ==
    LET s3_bucket_name == Get(parameters.v, "s3_bucket_name", Null)
        calls == <<IoCall("upload_to_s3",
                          [ string_file_contents |-> VJson(parameters),
                            s3_bucket_name |-> s3_bucket_name,
                            s3_file_path |-> "config_json_file",
                            correlation_id |-> correlation_id ])>>
    IN  IF ~Truthy(s3_bucket_name)
        THEN Outcome(Raise(SystemException(<<"EAWS016", "EAWS014">>, <<>>)), <<>>)
        ELSE IF outcome.exc # NoExc
        THEN Outcome(Raise(SystemException(<<"EAWS016">> \o outcome.exc.codes, <<>>)), calls)
        ELSE Outcome(Return(s3_bucket_name), calls)

\* outcome.val is the pair (rows, column_map)
fetch_valid_domains_from_database(parameters, correlation_id, outcome) ==
    LET calls == <<IoCall("run_stored_procedure",
                          [ procedure_name |-> "select_approved_emails_sp_name",
                            correlation_id |-> correlation_id ])>>
    IN  IF outcome.exc # NoExc
        THEN Outcome(Raise(SystemException(<<"EAWS007">> \o outcome.exc.codes, <<>>)), calls)
        ELSE IF ~Truthy(outcome.val.v[1])
        THEN Outcome(Raise(SystemException(<<"EAWS007", "EAWS007">>, <<>>)), calls)
        ELSE Outcome(Return(outcome.val), calls)

\* a persistence step that uploads before it looks at the number of domains
save_domains_to_s3_WriteFirst(domains, s3_bucket_name, correlation_id, outcome) ==
    LET calls == <<IoCall("upload_to_s3",
                          [ string_file_contents |-> VJson(domains),
                            s3_bucket_name |-> s3_bucket_name,
                            s3_file_path |-> "domains_json_file",
                            correlation_id |-> correlation_id ])>>
    IN  IF outcome.exc # NoExc
        THEN Outcome(Raise(SystemException(<<"EAWS019">> \o outcome.exc.codes, <<>>)), calls)
        ELSE IF ~Truthy(domains)
        THEN Outcome(Raise(SystemException(<<"EAWS019", "EAWS007">>, <<>>)), calls)
        ELSE Outcome(Return(Null), calls)

save_domains_to_s3(domains, s3_bucket_name, correlation_id, outcome) ==
    LET domains_json ==
            VDict([ domains |-> domains,
                    metadata |-> VDict([ total_domains |-> VInt(Len(domains.v)),
                                         generated_at |-> Null,
                                         correlation_id |-> correlation_id,
                                         version |-> VText("1.0") ]) ])
        calls == <<IoCall("upload_to_s3",
                          [ string_file_contents |-> VJson(domains_json),
                            s3_bucket_name |-> s3_bucket_name,
                            s3_file_path |-> "domains_json_file",
                            correlation_id |-> correlation_id ])>>
    IN  IF ~Truthy(domains)
        THEN Outcome(Raise(SystemException(<<"EAWS019", "EAWS007">>, <<>>)), <<>>)
        ELSE IF outcome.exc # NoExc
        THEN Outcome(Raise(SystemException(<<"EAWS019">> \o outcome.exc.codes, <<>>)), calls)
        ELSE Outcome(Return(Null), calls)

\* the mapping lambda_handler returns on success
ValidDomainsResponse(correlation_id, s3_bucket_name, validated_domains) ==
    VDict([ correlation_id |-> correlation_id,
            s3_bucket_name |-> s3_bucket_name,
            domain_count |-> VInt(Len(validated_domains.v)),
            status |-> VStr(<<"s","u","c","c","e","s","s">>) ])

\* function_name of lambda_fuction.py
valid_domains_function_name == <<"v","a","l","i","d","_","d","o","m","a","i","n","s">>

\* the number of domains whose category is c
CountCategory(domains, c) ==
    Cardinality({i \in 1..Len(domains) :
                   Get(domains[i].v, "category", VText("uncategorized")) = c})

\* the response of step 8; now is the clock reading
prepare_final_response(domains, s3_bucket_name, correlation_id, now) ==
    VDict([ status |-> VStr(<<"s","u","c","c","e","s","s">>),
            correlation_id |-> correlation_id,
            function_name |-> VStr(valid_domains_function_name),
            timestamp |-> VStr(now \o <<"Z">>),
            summary |-> VDict([ total_domains |-> VInt(Len(domains.v)),
                                s3_bucket_name |-> s3_bucket_name,
                                domains_file |-> VText("domains_json_file"),
                                config_file |-> VText("config_json_file") ]),
            domain_categories |->
                [ t |-> "counts",
                  v |-> { <<Get(domains.v[i].v, "category", VText("uncategorized")),
                            CountCategory(domains.v,
                                Get(domains.v[i].v, "category", VText("uncategorized")))>> :
                          i \in 1..Len(domains.v) } ],
            top_domains |->
                VList([ i \in 1..(IF Len(domains.v) < 10 THEN Len(domains.v) ELSE 10) |->
                          VDict([ domain |-> domains.v[i].v["domain_part"],
                                  category |-> domains.v[i].v["category"],
                                  source |-> domains.v[i].v["from"] ]) ]) ])

\* the try block for an event mapping; the response of
\* prepare_final_response is computed and not returned
ValidDomainsTry(event, env) ==
    LET correlation_id == EventCorrelationId(event)
        p1 == get_parameters(correlation_id, env.parameters)
        p2 == load_mailbox_configuration(p1.val, correlation_id, env.download)
        p3 == save_configuration_to_s3(p2.val, correlation_id, env.upload_config)
        p4 == fetch_valid_domains_from_database(p2.val, correlation_id, env.query)
        p5 == process_domain_data(p4.val.v[1], p4.val.v[2])
        p6 == validate_and_filter_domains(p5.val)
        p7 == save_domains_to_s3(p6.val, p3.val, correlation_id, env.upload_domains)
    IN  IF ~Truthy(correlation_id)
        THEN Outcome(Raise(SystemException(<<"EAWS001">>, <<>>)), <<>>)
        ELSE IF env.set_extra_log_attributes.exc # NoExc
        THEN Outcome(env.set_extra_log_attributes, <<>>)
        ELSE IF p1.exc # NoExc THEN p1
        ELSE IF p2.exc # NoExc THEN Outcome(p2, p1.io \o p2.io)
        ELSE IF p3.exc # NoExc THEN Outcome(p3, p1.io \o p2.io \o p3.io)
        ELSE IF p4.exc # NoExc THEN Outcome(p4, p1.io \o p2.io \o p3.io \o p4.io)
        ELSE IF p5.exc # NoExc THEN Outcome(p5, p1.io \o p2.io \o p3.io \o p4.io)
        ELSE IF p6.exc # NoExc THEN Outcome(p6, p1.io \o p2.io \o p3.io \o p4.io)
        ELSE IF p7.exc # NoExc
        THEN Outcome(p7, p1.io \o p2.io \o p3.io \o p4.io \o p7.io)
        ELSE Outcome(Return(ValidDomainsResponse(correlation_id, p3.val, p6.val)),
                     p1.io \o p2.io \o p3.io \o p4.io \o p7.io)

\* the correlation identifier the generic clause passes on: the local
\* correlation_id when it is set and truthy, else event.get('id', sentinel)
\* of a truthy event, else the sentinel
SafeCorrelationId(event) ==
    IF Truthy(EventCorrelationId(event)) THEN EventCorrelationId(event)
    ELSE IF Truthy(event) THEN Get(event.v, "id", VStr(NO_CORRELATION_ID))
    ELSE VStr(NO_CORRELATION_ID)

\* a SystemException is re-raised; any other fault of the try block goes to
\* handle_exception and the handler falls off its end, returning None.  The
\* stages turn every fault of theirs into a SystemException, so the fault
\* comes from before step 1, where parameters is not yet bound.  email_id is
\* the module-level name the clause reads.
ValidDomainsExcept(r, event, email_id) ==
    IF r.exc.type \in {"none", "SystemException"} THEN r
    ELSE Outcome(Return(Null),
             Append(r.io,
                    IoCall("handle_exception",
                           [ err |-> r.exc,
                             correlation_id |-> SafeCorrelationId(event),
                             s3_bucket_name |-> VStr(<<"N","o","n","e">>),
                             email_id |-> email_id ])))

\* the module-level names correlation_id and email_id after import
ValidDomainsGlobals ==
    [ correlation_id |-> VStr(NO_CORRELATION_ID), email_id |-> VStr(NO_EMAIL_ID) ]

\* one invocation of lambda_handler with the module-level names bound as in
\* globals.  An event that is no mapping makes event.get raise
\* AttributeError inside the try block; the generic clause reads event.get
\* again when the event is truthy, and that fault reaches the caller.
ValidDomainsInvocation(event, env, globals) ==
    IF IsMapping(event)
    THEN ValidDomainsExcept(ValidDomainsTry(event, env), event, globals.email_id)
    ELSE IF Truthy(event)
    THEN Outcome(Raise(Fault("AttributeError",
             "'" \o TypeName(event) \o "' object has no attribute 'get'")), <<>>)
    ELSE Outcome(Return(Null),
             <<IoCall("handle_exception",
                      [ err |-> Fault("AttributeError",
                                  "'" \o TypeName(event) \o "' object has no attribute 'get'"),
                        correlation_id |-> VStr(NO_CORRELATION_ID),
                        s3_bucket_name |-> VStr(<<"N","o","n","e">>),
                        email_id |-> globals.email_id ])>>)

\* lambda_handler in a freshly imported module
valid_domains_lambda_handler(event, env) ==
    ValidDomainsInvocation(event, env, ValidDomainsGlobals)

----------------------------------------------------------------------------
(* Inputs *)

Absent == [t |-> "absent", v |-> 0]

\* the dict holding the keys whose value is not Absent
MkDict(all) == VDict([key \in {k \in DOMAIN all : all[k] # Absent} |-> all[key]])

SeqsUpTo(S, n) == UNION {[1..m -> S] : m \in 0..n}

S_a == <<"a">>

S_b == <<"b">>

S_ops == <<"o","p","s">>

S_claims == <<"c","l","a","i","m","s">>

S_team_1 == <<"t","e","a","m","_","1">>

S_team_2 == <<"t","e","a","m","_","2">>

NameValues ==
    {Absent, VStr(<<>>), VStr(S_a), VStr(<<" ","a"," ">>), VStr(<<" "," ">>),
     VInt(0), VInt(7)}

TypeValues ==
    {Absent, VStr(<<>>), VStr(S_ops), VStr(<<"O","P","S">>), VStr(<<"O","p","s">>),
     VStr(S_claims), VStr(<<"C","L","A","I","M","S">>), VStr(<<"x","y","z">>),
     VInt(7)}

TeamValues ==
    {Absent, VStr(<<>>), VStr(S_team_1), VStr(<<" ","t","1","\t">>), VInt(7)}

LimitValues == {Absent, VInt(-10), VInt(100), VInt(101), VInt(150), VStr(<<"x">>)}

PriorityValues == {Absent, VInt(0), VInt(1000)}

\* raw entries handed to _validate_single_mailbox
RawEntries ==
    { MkDict([ mailboxName |-> n, mailboxType |-> ty, teamID |-> tm,
               processingLimit |-> pl, priority |-> pr, isActive |-> ia,
               retryCount |-> rc, description |-> de, category |-> ca ]) :
        n \in NameValues, ty \in TypeValues, tm \in TeamValues,
        pl \in LimitValues, pr \in PriorityValues,
        ia \in {Absent, VBool(FALSE)}, rc \in {Absent, VInt(0)},
        de \in {Absent, VStr(<<"d">>)}, ca \in {Absent, VStr(<<>>)} }

Entry(n, ty, tm) == VDict([mailboxName |-> n, mailboxType |-> ty, teamID |-> tm])

\* entries of a configuration document: two valid ones, and one for each way
\* an entry can fail
ConfigEntries ==
    { VDict([mailboxName |-> VStr(<<" ","a"," ">>), mailboxType |-> VStr(<<"O","P","S">>),
             teamID |-> VStr(S_team_1), priority |-> VInt(3)]),
      Entry(VStr(S_b), VStr(S_claims), VStr(S_team_2)),
      VDict([mailboxName |-> VStr(<<"x">>)]),
      Entry(VStr(S_a), VStr(<<"x","y","z">>), VStr(S_team_1)),
      Entry(VStr(S_a), VInt(7), VStr(S_team_1)),
      Entry(VStr(<<" "," ">>), VStr(S_ops), VStr(S_team_1)),
      VDict([mailboxName |-> VStr(S_a), mailboxType |-> VStr(S_ops),
             teamID |-> VStr(S_team_1), processingLimit |-> VStr(<<"x">>)]),
      Null }

\* values a key of a configuration mapping is bound to
KeyValues ==
    {Absent, Null, VList(<<>>), VInt(5),
     VList(<<Entry(VStr(S_b), VStr(S_claims), VStr(S_team_2))>>),
     VList(<<VDict([mailboxName |-> VStr(<<"x">>)])>>)}

\* documents handed to validate_mailbox_configuration
Configs ==
    {Null, VStr(<<"i","n","v","a","l","i","d">>), VInt(12345)}
    \cup {VList(l) : l \in SeqsUpTo(ConfigEntries, MaxEntries)}
    \cup {MkDict([mailboxes |-> VList(l)]) : l \in SeqsUpTo(ConfigEntries, MaxEntries)}
    \cup { MkDict([ mailboxes |-> m, inboxes |-> i, boxes |-> b,
                    mailbox_list |-> ml, unknown_key |-> u ]) :
             m \in KeyValues, i \in KeyValues, b \in KeyValues, ml \in KeyValues,
             u \in {Absent, VList(<<Entry(VStr(S_b), VStr(S_claims), VStr(S_team_2))>>)} }

\* mailboxes handed to the team filter
FilterMailboxes ==
    { Entry(VStr(n), VStr(S_ops), VStr(tm)) :
        n \in {S_a, S_b},
        tm \in {S_team_1, <<"T","E","A","M","_","1">>, S_team_2} }

TeamFilters ==
    {Null, VStr(<<>>), VStr(NO_TEAM_ID), VStr(S_team_1),
     VStr(<<"T","E","A","M","_","1">>), VStr(<<" ","t","e","a","m","_","1">>),
     VStr(<<"t","e","a","m","_","3">>)}

\* mailboxes handed to the sort: integer priorities, or none
SortMailboxes ==
    { MkDict([mailboxName |-> VStr(n), mailboxType |-> VStr(S_ops), priority |-> pr]) :
        n \in {S_a, <<"a","b">>, <<"Z">>},
        pr \in {Absent, VInt(3), VInt(5), VInt(7)} }
    \cup { MkDict([mailboxName |-> VStr(S_a), mailboxType |-> VStr(S_claims),
                   priority |-> pr]) : pr \in {Absent, VInt(5)} }

\* mailboxes handed to the output assembly
OutputMailboxes ==
    { MkDict([mailboxName |-> VStr(S_a), mailboxType |-> VStr(ty),
              isActive |-> f[1], priority |-> f[2]]) :
        ty \in {S_ops, S_claims, <<"x","y","z">>},
        f \in { <<Absent, Absent>>, <<VBool(TRUE), VInt(1)>>, <<VBool(FALSE), VInt(4)>>,
                <<VBool(FALSE), Absent>>, <<Absent, VInt(4)>> } }

S_corr_1 == <<"c","o","r","r","-","1">>

S_bucket == <<"b","u","c","k","e","t">>

\* entries of the configuration the handler retrieves
HandlerEntries ==
    { MkDict([mailboxName |-> VStr(n), mailboxType |-> VStr(S_ops),
              teamID |-> VStr(tm), priority |-> pr]) :
        n \in {S_a, S_b}, tm \in {S_team_1, S_team_2},
        pr \in {Absent, VInt(1), Null} }
    \cup { VDict([mailboxName |-> VStr(<<"x">>)]) }

\* the configuration of the end-to-end scenario of section 8
ScenarioConfig ==
    VDict([mailboxes |-> VList(<<
        VDict([mailboxName |-> VStr(S_a), mailboxType |-> VStr(<<"O","P","S">>),
               teamID |-> VStr(S_team_1), priority |-> VInt(3)]),
        VDict([mailboxName |-> VStr(S_b), mailboxType |-> VStr(S_claims),
               teamID |-> VStr(S_team_1), priority |-> VInt(1)]) >>)])

\* what download_json_from_s3 gives back
Downloads ==
    {Raise(CollaboratorFault), Return(Null), Return(VDict(<<>>)),
     Return(VStr(<<"i","n","v","a","l","i","d">>)),
     Return(VDict([mailboxes |-> VList(<<>>)])), Return(ScenarioConfig)}
    \cup {Return(VList(l)) : l \in SeqsUpTo(HandlerEntries, MaxEntries) \ {<<>>}}

\* events of the Inbox Lister
InboxEvents ==
    { MkDict([correlation_id |-> c, team_id |-> tm, s3_bucket_name |-> b]) :
        c \in {Absent, VStr(S_corr_1)},
        tm \in {Absent, VStr(<<>>), VStr(S_team_1), VStr(<<"t","e","a","m","_","3">>)},
        b \in {Absent, VStr(<<>>), VStr(S_bucket)} }

S_now == <<"2","0","2","4","-","0","2","-","0","4","T","1","0",":","0","0",":","0","0">>

S_bucket1 == <<"b","u","c","k","e","t","1">>

S_bucket2 == <<"b","u","c","k","e","t","2">>

S_file1 == <<"f","i","l","e","1",".","p","d","f">>

S_file2 == <<"f","i","l","e","2">>

S3Record(s3) == MkDict([eventSource |-> VStr(S_aws_s3), s3 |-> s3])

S3Notification(name, key) ==
    VDict([bucket |-> VDict([name |-> name]), object |-> VDict([key |-> key])])

\* records of an upload event: from other sources, not mappings, from S3
\* with and without the sub-fields
UploadRecords ==
    { VDict(<<>>), VDict([eventSource |-> VStr(<<"a","w","s",":","s","q","s">>)]), Null }
    \cup { S3Record(x) :
              x \in { Absent, Null, VDict(<<>>),
                      VDict([bucket |-> VDict([name |-> VStr(S_bucket1)])]),
                      VDict([bucket |-> VDict(<<>>), object |-> VDict([key |-> VStr(S_file1)])]),
                      VDict([bucket |-> VDict([name |-> VStr(S_bucket1)]), object |-> VDict(<<>>)]),
                      S3Notification(VStr(S_bucket1), VStr(S_file1)),
                      S3Notification(VStr(S_bucket2), VStr(S_file2)),
                      S3Notification(Null, VStr(S_file1)),
                      S3Notification(VStr(S_bucket1), VInt(7)),
                      S3Notification(VStr(S_bucket1), VBytes(S_file1)) } }

MaxRecords == 3

UploadEvents ==
    { Null, VList(<<>>), VBytes(<<"R">>), VDict(<<>>), VDict([NotRecords |-> VList(<<>>)]),
      VDict([Records |-> Null]), VDict([Records |-> VInt(7)]) }
    \cup { VDict([Records |-> VList(l)]) : l \in SeqsUpTo(UploadRecords, MaxRecords) }

\* rows of the approved-sender query: tuples of one to four cells, and one
\* value that is no tuple
DomainRows ==
    { VList(<<VStr(<<"1">>), VStr(<<" ","A","@","b",".","C","\n">>), VStr(<<"B","a","n","k">>)>>),
      VList(<<VInt(2), VStr(<<"x","@","y">>), Null>>),
      VList(<<VStr(<<"c">>), VInt(7), VStr(<<"\t","U","@","V",".","w"," ">>), VStr(<<"9">>)>>),
      VList(<<VStr(<<"1">>), VStr(<<"a","@","b",".","c">>)>>),
      VList(<<VStr(<<"i","n","v","a","l","i","d">>)>>),
      VList(<<>>),
      Null }

ColumnMaps ==
    { VDict([ID |-> VInt(0), From |-> VInt(1), Category |-> VInt(2)]),
      VDict([ID |-> VInt(1), From |-> VInt(2), Category |-> VInt(0)]),
      VDict([ID |-> VInt(3), From |-> VInt(1), Category |-> VInt(0)]),
      VDict([ID |-> VInt(0), From |-> VInt(0), Category |-> VInt(0)]),
      VDict([ID |-> VInt(0), From |-> VInt(1)]) }

\* the from values of extracted entries: every string of up to three of
\* the characters a @ . and two longer ones with two "@"
FromValues ==
    { VStr(f) : f \in SeqsUpTo({"a", "@", "."}, 3)
                       \cup { <<"a","@","a","@","a",".","a">>, <<"a","@","a",".","a","@","a">> } }
    \cup { Absent }

ExtractedEntries ==
    { MkDict([id |-> VStr(<<"1">>), from |-> f, category |-> VStr(<<"c">>),
              is_active |-> VBool(TRUE), validation_date |-> Null]) : f \in FromValues }

\* events of Valid Domains, two of them no mappings
DomainEvents ==
    { MkDict([id |-> i, correlation_id |-> c]) :
        i \in {Absent, Null, VStr(<<>>), VStr(<<"i","d","-","1">>)},
        c \in {Absent, VStr(<<>>), VStr(S_corr_1)} }
    \cup { Null, VList(<<VInt(1)>>) }

StandardColumns == VDict([ID |-> VInt(0), From |-> VInt(1), Category |-> VInt(2)])

Row_valid ==
    VList(<<VStr(<<"1">>), VStr(<<" ","A","@","b",".","C","\n">>), VStr(<<"B","a","n","k">>)>>)

Row_no_dot == VList(<<VInt(2), VStr(<<"x","@","y">>), Null>>)

\* what the collaborators of Valid Domains give back
DomainEnvs ==
    [ set_extra_log_attributes : { Raise(CollaboratorFault), Return(Null) },
      parameters :
        { Raise(CollaboratorFault), Return(Null), Return(VDict(<<>>)),
          Return(VDict([s3_bucket_name |-> VStr(<<>>)])),
          Return(VDict([s3_bucket_name |-> VStr(S_bucket)])) },
      download : { Raise(CollaboratorFault), Return(Null), Return(VDict(<<>>)),
                   Return(ScenarioConfig) },
      upload_config : { Raise(CollaboratorFault), Return(Null) },
      query :
        { Raise(CollaboratorFault) }
        \cup { Return(VList(<<VList(rows), StandardColumns>>)) :
                 rows \in { <<>>, <<Row_valid>>, <<Row_valid, Row_no_dot, Row_valid>>,
                            <<Row_no_dot>>, <<Null>> } },
      upload_domains : { Raise(CollaboratorFault), Return(Null) } ]

S_inbox(d) == <<"i","n","b","o","x",d>>

\* the input of test_sort_with_default_priority and of section 8
DefaultPrioritySample ==
    << VDict([mailboxName |-> VStr(S_inbox("1"))]),
       VDict([mailboxName |-> VStr(S_inbox("2")), priority |-> VInt(3)]),
       VDict([mailboxName |-> VStr(S_inbox("3")), priority |-> VInt(7)]) >>

----------------------------------------------------------------------------
(* State machine: one call per behaviour *)

Init ==
    /\ pc = "ready"
    /\ ret = Null
    /\ exc = NoExc
    /\ io = <<>>
    /\ \/ /\ call = "_validate_single_mailbox"
          /\ arg \in RawEntries \cup {Null, VInt(7)}
          /\ arg2 = VInt(0)
          /\ arg3 = Null
       \/ /\ call = "validate_mailbox_configuration"
          /\ arg \in Configs
          /\ arg2 = Null
          /\ arg3 = Null
       \/ /\ call = "filter_mailboxes_by_team"
          /\ arg \in {VList(l) : l \in SeqsUpTo(FilterMailboxes, MaxSeqLen)}
          /\ arg2 \in TeamFilters
          /\ arg3 = Null
       \/ /\ call = "sort_mailboxes_by_priority"
          /\ arg \in {VList(l) : l \in SeqsUpTo(SortMailboxes, MaxSeqLen)}
                       \cup {VList(DefaultPrioritySample)}
          /\ arg2 = Null
          /\ arg3 = Null
       \/ /\ call = "inbox_lister.lambda_handler"
          /\ arg \in InboxEvents
          /\ arg2 \in {[download |-> d, now |-> S_now] : d \in Downloads}
          /\ arg3 = Null
       \/ /\ call = "email_receiver.lambda_handler"
          /\ arg \in UploadEvents
          /\ arg2 = Null
          /\ arg3 = Null
       \/ /\ call = "process_domain_data"
          /\ arg \in {VList(l) : l \in SeqsUpTo(DomainRows, MaxSeqLen)}
          /\ arg2 \in ColumnMaps
          /\ arg3 = Null
       \/ /\ call = "validate_and_filter_domains"
          /\ arg \in {VList(l) : l \in SeqsUpTo(ExtractedEntries, MaxEntries)}
          /\ arg2 = Null
          /\ arg3 = Null
       \/ /\ call = "valid_domains.lambda_handler"
          /\ arg \in DomainEvents
          /\ arg2 \in DomainEnvs
          /\ arg3 = Null
       \/ /\ call = "prepare_mailbox_list_output"
          /\ arg \in {VList(l) : l \in SeqsUpTo(OutputMailboxes, MaxSeqLen)}
          /\ arg2 = VStr(S_corr_1)
          /\ arg3 = VStr(S_bucket)

\* the call returns r.val or raises r.exc; the argument objects are not
\* written by any of the functions, and a pure function calls no collaborator
Finish(r) ==
    /\ pc' = "done"
    /\ ret' = r.val
    /\ exc' = r.exc
    /\ UNCHANGED <<call, arg, arg2, arg3, io>>

CallValidateSingleMailbox ==
    /\ pc = "ready"
    /\ call = "_validate_single_mailbox"
    /\ Finish(validate_single_mailbox(arg, arg2.v))

CallValidateMailboxConfiguration ==
    /\ pc = "ready"
    /\ call = "validate_mailbox_configuration"
    /\ Finish(validate_mailbox_configuration(arg))

CallFilterMailboxesByTeam ==
    /\ pc = "ready"
    /\ call = "filter_mailboxes_by_team"
    /\ Finish(Return(filter_mailboxes_by_team(arg, arg2)))

CallSortMailboxesByPriority ==
    /\ pc = "ready"
    /\ call = "sort_mailboxes_by_priority"
    /\ Finish(Return(sort_mailboxes_by_priority(arg)))

CallPrepareMailboxListOutput ==
    /\ pc = "ready"
    /\ call = "prepare_mailbox_list_output"
    /\ Finish(Return(prepare_mailbox_list_output(arg, arg2, arg3)))

\* a handler returns or raises after the collaborator calls r.io
FinishHandler(r) ==
    /\ pc' = "done"
    /\ ret' = r.val
    /\ exc' = r.exc
    /\ io' = r.io
    /\ UNCHANGED <<call, arg, arg2, arg3>>

CallInboxListerHandler ==
    /\ pc = "ready"
    /\ call = "inbox_lister.lambda_handler"
    /\ FinishHandler(inbox_lister_lambda_handler(arg, arg2))

CallEmailReceiverHandler ==
    /\ pc = "ready"
    /\ call = "email_receiver.lambda_handler"
    /\ FinishHandler(email_receiver_lambda_handler(arg))

CallProcessDomainData ==
    /\ pc = "ready"
    /\ call = "process_domain_data"
    /\ Finish(process_domain_data(arg, arg2))

CallValidateAndFilterDomains ==
    /\ pc = "ready"
    /\ call = "validate_and_filter_domains"
    /\ Finish(validate_and_filter_domains(arg))

CallValidDomainsHandler ==
    /\ pc = "ready"
    /\ call = "valid_domains.lambda_handler"
    /\ FinishHandler(valid_domains_lambda_handler(arg, arg2))

Next ==
    \/ CallValidDomainsHandler
    \/ CallProcessDomainData
    \/ CallValidateAndFilterDomains
    \/ CallInboxListerHandler
    \/ CallEmailReceiverHandler
    \/ CallValidateSingleMailbox
    \/ CallValidateMailboxConfiguration
    \/ CallFilterMailboxesByTeam
    \/ CallSortMailboxesByPriority
    \/ CallPrepareMailboxListOutput

Spec == Init /\ [][Next]_vars

Done(f) == pc = "done" /\ call = f

----------------------------------------------------------------------------
(* The Domain Refresh handler, stage by stage.  pc is the stage about to     *)
(* run, arg3 holds the local variables of lambda_handler and the stages run  *)
(* so far, io the collaborator calls made so far.                            *)

Stages ==
    << "GetParameters", "LoadMailboxConfig", "PersistMergedConfig",
       "QueryDomainsFromDB", "ExtractDomainRows", "ValidateDomains",
       "PersistDomains", "BuildSummary" >>

\* a handler whose step 4 follows step 2, leaving step 3 out
NextStage_SkipPersist(stage) ==
    IF stage = "GetParameters" THEN "LoadMailboxConfig"
    ELSE IF stage = "LoadMailboxConfig" THEN "QueryDomainsFromDB"
    ELSE IF stage = "PersistMergedConfig" THEN "QueryDomainsFromDB"
    ELSE IF stage = "QueryDomainsFromDB" THEN "ExtractDomainRows"
    ELSE IF stage = "ExtractDomainRows" THEN "ValidateDomains"
    ELSE IF stage = "ValidateDomains" THEN "PersistDomains"
    ELSE IF stage = "PersistDomains" THEN "BuildSummary"
    ELSE "done"

\* the statement that follows a step of the try block
NextStage(stage) ==
    IF stage = "GetParameters" THEN "LoadMailboxConfig"
    ELSE IF stage = "LoadMailboxConfig" THEN "PersistMergedConfig"
    ELSE IF stage = "PersistMergedConfig" THEN "QueryDomainsFromDB"
    ELSE IF stage = "QueryDomainsFromDB" THEN "ExtractDomainRows"
    ELSE IF stage = "ExtractDomainRows" THEN "ValidateDomains"
    ELSE IF stage = "ValidateDomains" THEN "PersistDomains"
    ELSE IF stage = "PersistDomains" THEN "BuildSummary"
    ELSE "done"

\* the local variables before the try block binds them
PipelineLocals ==
    [ ran |-> <<>>, correlation_id |-> Null, parameters |-> Null,
      s3_bucket_name |-> Null, fetched |-> Null, domains |-> Null,
      validated_domains |-> Null, response |-> Null ]

PipelineInit ==
    /\ pc = "ready"
    /\ call = "valid_domains.lambda_handler"
    /\ arg \in DomainEvents
    /\ arg2 \in DomainEnvs
    /\ arg3 = PipelineLocals
    /\ ret = Null
    /\ exc = NoExc
    /\ io = <<>>

\* the invocation ends with the outcome r
PipelineEnd(r) ==
    /\ pc' = "done"
    /\ ret' = r.val
    /\ exc' = r.exc
    /\ io' = r.io

\* the statements before step 1: the identifier is read and checked, the
\* logging attributes are set
PipelineStart ==
    /\ pc = "ready"
    /\ UNCHANGED <<call, arg, arg2>>
    /\ IF ~IsMapping(arg)
       THEN /\ PipelineEnd(valid_domains_lambda_handler(arg, arg2))
            /\ arg3' = arg3
       ELSE IF ~Truthy(EventCorrelationId(arg))
       THEN /\ PipelineEnd(Outcome(Raise(SystemException(<<"EAWS001">>, <<>>)), <<>>))
            /\ arg3' = arg3
       ELSE IF arg2.set_extra_log_attributes.exc # NoExc
       THEN /\ PipelineEnd(ValidDomainsExcept(
                               Outcome(arg2.set_extra_log_attributes, <<>>), arg,
                               ValidDomainsGlobals.email_id))
            /\ arg3' = [arg3 EXCEPT !.correlation_id = EventCorrelationId(arg)]
       ELSE /\ pc' = "GetParameters"
            /\ arg3' = [arg3 EXCEPT !.correlation_id = EventCorrelationId(arg)]
            /\ UNCHANGED <<ret, exc, io>>

\* one step of the try block: stage ran with outcome r; bound holds the
\* local variables as the step leaves them when it succeeds
RunStage(stage, r, bound) ==
    /\ pc = stage
    /\ UNCHANGED <<call, arg, arg2>>
    /\ IF r.exc # NoExc
       THEN /\ PipelineEnd(ValidDomainsExcept(Outcome(r, io \o r.io), arg,
                                       ValidDomainsGlobals.email_id))
            /\ arg3' = [arg3 EXCEPT !.ran = Append(@, stage)]
       ELSE /\ pc' = NextStage(stage)
            /\ io' = io \o r.io
            /\ arg3' = [bound EXCEPT !.ran = Append(@, stage)]
            /\ UNCHANGED <<ret, exc>>

StageGetParameters ==
    RunStage("GetParameters",
             get_parameters(arg3.correlation_id, arg2.parameters),
             [arg3 EXCEPT !.parameters =
                 get_parameters(arg3.correlation_id, arg2.parameters).val])

StageLoadMailboxConfig ==
    RunStage("LoadMailboxConfig",
             load_mailbox_configuration(arg3.parameters, arg3.correlation_id, arg2.download),
             [arg3 EXCEPT !.parameters =
                 load_mailbox_configuration(arg3.parameters, arg3.correlation_id,
                                            arg2.download).val])

StagePersistMergedConfig ==
    RunStage("PersistMergedConfig",
             save_configuration_to_s3(arg3.parameters, arg3.correlation_id,
                                      arg2.upload_config),
             [arg3 EXCEPT !.s3_bucket_name =
                 save_configuration_to_s3(arg3.parameters, arg3.correlation_id,
                                          arg2.upload_config).val])

StageQueryDomainsFromDB ==
    RunStage("QueryDomainsFromDB",
             fetch_valid_domains_from_database(arg3.parameters, arg3.correlation_id,
                                               arg2.query),
             [arg3 EXCEPT !.fetched =
                 fetch_valid_domains_from_database(arg3.parameters, arg3.correlation_id,
                                                   arg2.query).val])

StageExtractDomainRows ==
    RunStage("ExtractDomainRows",
             Outcome(process_domain_data(arg3.fetched.v[1], arg3.fetched.v[2]), <<>>),
             [arg3 EXCEPT !.domains =
                 process_domain_data(arg3.fetched.v[1], arg3.fetched.v[2]).val])

StageValidateDomains ==
    RunStage("ValidateDomains",
             Outcome(validate_and_filter_domains(arg3.domains), <<>>),
             [arg3 EXCEPT !.validated_domains =
                 validate_and_filter_domains(arg3.domains).val])

StagePersistDomains ==
    RunStage("PersistDomains",
             save_domains_to_s3(arg3.validated_domains, arg3.s3_bucket_name,
                                arg3.correlation_id, arg2.upload_domains),
             arg3)

\* step 8 and the return statement: the response of prepare_final_response
\* is bound and the handler returns its own mapping
StageBuildSummary ==
    /\ pc = "BuildSummary"
    /\ UNCHANGED <<call, arg, arg2>>
    /\ arg3' = [arg3 EXCEPT
                   !.ran = Append(@, "BuildSummary"),
                   !.response = prepare_final_response(
                                    arg3.validated_domains, arg3.s3_bucket_name,
                                    arg3.correlation_id, S_now)]
    /\ PipelineEnd(Outcome(Return(ValidDomainsResponse(
                               arg3.correlation_id, arg3.s3_bucket_name,
                               arg3.validated_domains)), io))

PipelineNext ==
    \/ PipelineStart
    \/ StageGetParameters
    \/ StageLoadMailboxConfig
    \/ StagePersistMergedConfig
    \/ StageQueryDomainsFromDB
    \/ StageExtractDomainRows
    \/ StageValidateDomains
    \/ StagePersistDomains
    \/ StageBuildSummary

PipelineSpec == PipelineInit /\ [][PipelineNext]_vars

\* the stage-by-stage run ends as the handler taken whole
PipelineAgrees ==
    (Done("valid_domains.lambda_handler") /\ arg3 # Null)
    => [exc |-> exc, val |-> ret, io |-> io] = valid_domains_lambda_handler(arg, arg2)

----------------------------------------------------------------------------
(* A sequence of invocations of one handler in one loaded module.  arg3      *)
(* holds the module-level names, the number of invocations served and what   *)
(* each of them was given and gave back; arg and arg2 are the event and the  *)
(* collaborator outcomes of the invocation at hand.                          *)

MaxInvocations == 2

\* the module-level names correlation_id, email_id and team_id of
\* lambda_function.py after import
InboxListerGlobals ==
    [ correlation_id |-> VStr(NO_CORRELATION_ID), email_id |-> VStr(NO_EMAIL_ID),
      team_id |-> VStr(NO_TEAM_ID) ]

ModuleGlobals(handler) ==
    IF handler = "inbox_lister.lambda_handler" THEN InboxListerGlobals
    ELSE ValidDomainsGlobals

\* one invocation; lambda_handler of the Inbox Lister reads none of the
\* module-level names
Invocation(handler, event, env, globals) ==
    IF handler = "inbox_lister.lambda_handler"
    THEN inbox_lister_lambda_handler(event, env)
    ELSE ValidDomainsInvocation(event, env, globals)

\* the correlation_id the invocation hands to set_extra_log_attributes, or
\* Absent when it does not get that far
LoggedIdentifier(handler, event) ==
    IF ~IsMapping(event) THEN Absent
    ELSE IF handler = "inbox_lister.lambda_handler"
    THEN Get(event.v, "correlation_id", VStr(NO_CORRELATION_ID))
    ELSE IF Truthy(EventCorrelationId(event)) THEN EventCorrelationId(event)
    ELSE Absent

\* a handler that declares correlation_id global and so stores the
\* identifier of the event in the module
GlobalsAfter_Leaks(globals, event) ==
    IF IsMapping(event) /\ Truthy(EventCorrelationId(event))
    THEN [globals EXCEPT !.correlation_id = EventCorrelationId(event)]
    ELSE globals

\* the module-level names after an invocation: the handlers have no global
\* statement, the names they assign are locals
GlobalsAfter(globals, event) == globals

SessionInboxEvents ==
    { MkDict([correlation_id |-> c, team_id |-> Absent, s3_bucket_name |-> b]) :
        c \in {Absent, VStr(S_corr_1)}, b \in {Absent, VStr(S_bucket)} }

SessionInboxEnvs ==
    [ download : { Raise(CollaboratorFault), Return(Null), Return(ScenarioConfig),
                   Return(VList(<<MkDict([mailboxName |-> VStr(S_a),
                                          mailboxType |-> VStr(S_ops),
                                          teamID |-> VStr(S_team_1),
                                          priority |-> Null])>>)) },
      now : {S_now} ]

SessionDomainEvents ==
    { Null, VDict(<<>>),
      MkDict([id |-> VStr(<<"i","d","-","1">>), correlation_id |-> Absent]),
      MkDict([id |-> Absent, correlation_id |-> VStr(S_corr_1)]),
      MkDict([id |-> VStr(<<"i","d","-","1">>), correlation_id |-> VStr(S_corr_1)]) }

SessionDomainEnvs ==
    { env \in DomainEnvs :
        /\ env.parameters = Return(VDict([s3_bucket_name |-> VStr(S_bucket)]))
        /\ env.download = Return(ScenarioConfig)
        /\ env.upload_config = Return(Null)
        /\ env.upload_domains = Return(Null)
        /\ env.query \in { Raise(CollaboratorFault),
                           Return(VList(<<VList(<<Row_valid>>), StandardColumns>>)),
                           Return(VList(<<VList(<<Row_no_dot>>), StandardColumns>>)) } }

\* an event and the collaborator outcomes for an invocation of handler
SessionInput(handler, event, env) ==
    IF handler = "inbox_lister.lambda_handler"
    THEN event \in SessionInboxEvents /\ env \in SessionInboxEnvs
    ELSE event \in SessionDomainEvents /\ env \in SessionDomainEnvs

SessionInit ==
    /\ pc = "ready"
    /\ call \in {"inbox_lister.lambda_handler", "valid_domains.lambda_handler"}
    /\ arg \in SessionInboxEvents \cup SessionDomainEvents
    /\ arg2 \in SessionInboxEnvs \cup SessionDomainEnvs
    /\ SessionInput(call, arg, arg2)
    /\ arg3 = [globals |-> ModuleGlobals(call), served |-> 0, history |-> {}]
    /\ ret = Null
    /\ exc = NoExc
    /\ io = <<>>

\* the platform invokes the handler: it runs to its end
Invoke ==
    /\ pc = "ready"
    /\ pc' = "done"
    /\ ret' = Invocation(call, arg, arg2, arg3.globals).val
    /\ exc' = Invocation(call, arg, arg2, arg3.globals).exc
    /\ io' = Invocation(call, arg, arg2, arg3.globals).io
    /\ arg3' = [ globals |-> GlobalsAfter(arg3.globals, arg),
                 served |-> arg3.served + 1,
                 history |-> arg3.history \cup
                     {[ event |-> arg, env |-> arg2,
                        logged |-> LoggedIdentifier(call, arg),
                        outcome |-> Invocation(call, arg, arg2, arg3.globals) ]} ]
    /\ UNCHANGED <<call, arg, arg2>>

\* the next event arrives at the same loaded module; the locals of the
\* invocation before are gone
NextInvocation ==
    /\ pc = "done"
    /\ arg3.served < MaxInvocations
    /\ pc' = "ready"
    /\ arg' \in SessionInboxEvents \cup SessionDomainEvents
    /\ arg2' \in SessionInboxEnvs \cup SessionDomainEnvs
    /\ SessionInput(call, arg', arg2')
    /\ ret' = Null
    /\ exc' = NoExc
    /\ io' = <<>>
    /\ UNCHANGED <<call, arg3>>

SessionNext == Invoke \/ NextInvocation

SessionSpec == SessionInit /\ [][SessionNext]_vars

----------------------------------------------------------------------------
(* Vocabulary of the properties *)

Range(s) == {s[i] : i \in 1..Len(s)}

Count(x, s) == Cardinality({i \in 1..Len(s) : s[i] = x})

\* the elements of s at the positions in keep, in the order of s
RECURSIVE Pick(_, _)
Pick(s, keep) ==
    IF s = <<>> THEN <<>>
    ELSE Pick(SubSeq(s, 1, Len(s) - 1), keep)
             \o (IF Len(s) \in keep THEN <<s[Len(s)]>> ELSE <<>>)

\* single-entry validation returns a normalized record for e
Survives(e) == validate_single_mailbox(e, 0).exc.type = "none"

Normalized(e) == validate_single_mailbox(e, 0).val

\* the required fields of a raw mapping that are absent or falsy
AbsentOrFalsy(d) ==
    {f \in {"mailboxName", "mailboxType", "teamID"} :
        f \notin DOMAIN d \/ ~Truthy(d[f])}

\* the mailbox list of a mapping-or-sequence container, as section 4.3 of
\* the specification words it
ExpectedList(cfg) ==
    IF cfg.t = "list" THEN cfg
    ELSE IF "mailboxes" \in DOMAIN cfg.v THEN cfg.v["mailboxes"]
    ELSE IF "inboxes" \in DOMAIN cfg.v THEN cfg.v["inboxes"]
    ELSE IF "boxes" \in DOMAIN cfg.v THEN cfg.v["boxes"]
    ELSE IF "mailbox_list" \in DOMAIN cfg.v THEN cfg.v["mailbox_list"]
    ELSE VList(<<>>)

\* the code that leads the message of the exception the caller receives
KindAtCaller == IF exc.codes = <<>> THEN "none" ELSE Head(exc.codes)

\* the code of the raise statement the failure comes from
KindRaised == IF exc.codes = <<>> THEN "none" ELSE exc.codes[Len(exc.codes)]

AllWhitespace(s) == \A i \in 1..Len(s) : s[i] \in WhitespaceChars

\* r is s without its surrounding whitespace
IsTrimOf(r, s) ==
    /\ r = <<>> \/ (r[1] \notin WhitespaceChars /\ r[Len(r)] \notin WhitespaceChars)
    /\ \E i \in 0..Len(s) :
          /\ i + Len(r) <= Len(s)
          /\ SubSeq(s, i + 1, i + Len(r)) = r
          /\ AllWhitespace(SubSeq(s, 1, i))
          /\ AllWhitespace(SubSeq(s, i + Len(r) + 1, Len(s)))

----------------------------------------------------------------------------
(* C1 - C2: collection validation *)

\* C1: for every non-empty resolved mailbox list, an entry that fails
\* single-entry validation for any reason is skipped and never makes the
\* collection-level validation fail: when at least one entry survives, the
\* call returns exactly the normalized surviving entries in their order.
C1_FailedEntryIsSkipped ==
    (/\ Done("validate_mailbox_configuration")
     /\ arg.t \in {"dict", "list"}
     /\ ExpectedList(arg).t = "list"
     /\ \E i \in 1..Len(ExpectedList(arg).v) : Survives(ExpectedList(arg).v[i]))
    => LET l == ExpectedList(arg).v
           kept == Pick(l, {i \in 1..Len(l) : Survives(l[i])})
       IN  /\ exc = NoExc
           /\ ret = VList([i \in 1..Len(kept) |-> Normalized(kept[i])])

\* the kind section 4.3 assigns to a container: InvalidFormat (EAWS009),
\* NoMailboxesFound (EAWS010), NoValidMailboxes (EAWS011), or none
ExpectedKind(cfg) ==
    IF cfg.t \notin {"dict", "list"} THEN "EAWS009"
    ELSE IF ~Truthy(ExpectedList(cfg)) THEN "EAWS010"
    ELSE IF /\ ExpectedList(cfg).t = "list"
            /\ \A i \in 1..Len(ExpectedList(cfg).v) : ~Survives(ExpectedList(cfg).v[i])
         THEN "EAWS011"
    ELSE "none"

\* C2: the failure kind of collection validation is decided by the input
\* alone (InvalidFormat, NoMailboxesFound, NoValidMailboxes), and the kind
\* that reaches the caller is the one that was raised, not another of the
\* three.
C2_KindReachesCaller ==
    (Done("validate_mailbox_configuration") /\ ExpectedKind(arg) # "none")
    => (exc.type = "SystemException" /\ KindAtCaller = ExpectedKind(arg))

----------------------------------------------------------------------------
(* C3 - C6: single-entry validation *)

\* C3: the set M of required fields that are absent or falsy decides the
\* first check: if M is non-empty the call fails with SchemaError (EAWS012)
\* naming exactly the fields of M; if M is empty no SchemaError is raised.
C3_SchemaErrorNamesMissing ==
    (Done("_validate_single_mailbox") /\ arg.t = "dict")
    => LET M == AbsentOrFalsy(arg.v)
       IN  IF M # {}
           THEN /\ exc.type = "SystemException"
                /\ exc.codes = <<"EAWS012">>
                /\ Range(exc.fields) = M
                /\ Len(exc.fields) = Cardinality(M)
           ELSE "EAWS012" \notin Range(exc.codes) /\ exc.fields = <<>>

C3_Witness ==
    /\ Done("_validate_single_mailbox")
    /\ arg.t = "dict"
    /\ "mailboxName" \in DOMAIN arg.v
    /\ AbsentOrFalsy(arg.v) = {"mailboxName", "teamID"}
    /\ exc.fields = <<"mailboxName", "teamID">>

\* C4: for every entry with all required fields, if the lowercased
\* mailboxType is "ops" or "claims" the normalized record carries exactly
\* that lowercase value (lowercasing it again changes nothing); for any
\* other value validation fails with UnsupportedType (EAWS015).
C4_TypeNormalization ==
    (/\ Done("_validate_single_mailbox")
     /\ arg.t = "dict"
     /\ AbsentOrFalsy(arg.v) = {})
    => LET ty == arg.v["mailboxType"]
       IN  IF ty.t = "str" /\ Lower(ty.v) \in {<<"o","p","s">>, <<"c","l","a","i","m","s">>}
           THEN exc = NoExc =>
                    /\ ret.v["mailboxType"] = VStr(Lower(ty.v))
                    /\ Lower(ret.v["mailboxType"].v) = ret.v["mailboxType"].v
           ELSE exc.type = "SystemException" /\ exc.codes = <<"EAWS015">>

\* C5: processingLimit clamps only upward: an integer p above 100 becomes
\* 100, any other integer p is kept (100 stays 100, negative values pass
\* through), an absent key gives 75; so every normalized record has
\* processingLimit <= 100.
C5_ClampOnlyUpward ==
    (Done("_validate_single_mailbox") /\ exc = NoExc)
    => LET d == arg.v
           out == ret.v["processingLimit"]
       IN  /\ "processingLimit" \notin DOMAIN d => out = VInt(75)
           /\ ("processingLimit" \in DOMAIN d /\ d["processingLimit"].t = "int")
                  => out = VInt(IF d["processingLimit"].v > 100
                                THEN 100 ELSE d["processingLimit"].v)
           /\ out.t = "int" /\ out.v <= 100

C5_Witness ==
    /\ Done("_validate_single_mailbox")
    /\ exc = NoExc
    /\ "processingLimit" \in DOMAIN arg.v
    /\ arg.v["processingLimit"] = VInt(-10)
    /\ ret.v["processingLimit"] = VInt(-10)

\* C6: in a normalized record isActive, priority, retryCount, description
\* and category equal the raw value when the key is present (falsy and large
\* values included) and true, 5, 3, "", "default" when it is absent;
\* mailboxName and teamID are the raw values (in their string form) without
\* surrounding whitespace.
C6_Defaulting ==
    (Done("_validate_single_mailbox") /\ exc = NoExc)
    => LET d == arg.v
           Field(key, default) ==
               ret.v[key] = (IF key \in DOMAIN d THEN d[key] ELSE default)
       IN  /\ Field("isActive", VBool(TRUE))
           /\ Field("priority", VInt(5))
           /\ Field("retryCount", VInt(3))
           /\ Field("description", VStr(<<>>))
           /\ Field("category", VStr(<<"d","e","f","a","u","l","t">>))
           /\ ret.v["mailboxName"].t = "str"
           /\ IsTrimOf(ret.v["mailboxName"].v, PyStr(d["mailboxName"]))
           /\ ret.v["teamID"].t = "str"
           /\ IsTrimOf(ret.v["teamID"].v, PyStr(d["teamID"]))

C6_Witness ==
    /\ Done("_validate_single_mailbox")
    /\ exc = NoExc
    /\ arg.v["mailboxName"] = VStr(<<" ","a"," ">>)
    /\ ret.v["mailboxName"] = VStr(<<"a">>)
    /\ arg.v["teamID"] = VStr(<<" ","t","1","\t">>)
    /\ "priority" \in DOMAIN arg.v
    /\ ret.v["priority"] = VInt(0)
    /\ "isActive" \in DOMAIN arg.v
    /\ ret.v["isActive"] = VBool(FALSE)
    /\ "retryCount" \notin DOMAIN arg.v
    /\ ret.v["retryCount"] = VInt(3)

----------------------------------------------------------------------------
(* C7 - C8: the validated collection and the resolution of the list *)

\* a trimmed non-empty string
TrimmedNonEmpty(x) ==
    /\ x.t = "str"
    /\ x.v # <<>>
    /\ x.v[1] \notin WhitespaceChars
    /\ x.v[Len(x.v)] \notin WhitespaceChars

\* C7: every mailbox of every collection returned by collection validation
\* has all required fields, a mailboxType in {ops, claims}, a mailboxName
\* that is a trimmed non-empty string and a teamID that is a trimmed
\* non-empty string.
C7_ValidatedCollectionInvariant ==
    (Done("validate_mailbox_configuration") /\ exc = NoExc)
    => \A i \in 1..Len(ret.v) :
          LET m == ret.v[i].v
          IN  /\ {"mailboxName", "mailboxType", "teamID"} \subseteq DOMAIN m
              /\ m["mailboxType"] \in {VStr(<<"o","p","s">>), VStr(<<"c","l","a","i","m","s">>)}
              /\ TrimmedNonEmpty(m["mailboxName"])
              /\ TrimmedNonEmpty(m["teamID"])

\* C8: the mailbox list of a sequence is the sequence itself; the list of a
\* mapping is the value of "mailboxes" if that key is present, otherwise the
\* value of the first present key among "inboxes", "boxes", "mailbox_list",
\* otherwise empty. Presence decides: an earlier key that is present with an
\* empty or null value ends the call with NoMailboxesFound (EAWS010), also
\* when a later key holds valid entries; a non-empty list is validated as if
\* it had been passed as the container.
C8_ListResolution ==
    (Done("validate_mailbox_configuration") /\ arg.t \in {"dict", "list"})
    => LET expected == ExpectedList(arg)
       IN  /\ ~Truthy(expected)
              => /\ exc.type = "SystemException"
                 /\ KindRaised = "EAWS010"
                 /\ ret = Null
           /\ (Truthy(expected) /\ expected.t = "list")
              => /\ ret = validate_mailbox_configuration(expected).val
                 /\ exc = validate_mailbox_configuration(expected).exc

C8_Witness ==
    /\ Done("validate_mailbox_configuration")
    /\ arg.t = "dict"
    /\ "mailboxes" \in DOMAIN arg.v
    /\ arg.v["mailboxes"] = Null
    /\ "inboxes" \in DOMAIN arg.v
    /\ arg.v["inboxes"].t = "list"
    /\ \E i \in 1..Len(arg.v["inboxes"].v) : Survives(arg.v["inboxes"].v[i])
    /\ KindRaised = "EAWS010"

----------------------------------------------------------------------------
(* C9 - C10: filter and sort *)

\* C9: when the filter is null, the empty string or "NO_TEAM_ID" the team
\* filter returns its input unchanged; otherwise it returns exactly the
\* entries whose teamID is the filter, character for character, in their
\* original order.
C9_TeamFilter ==
    Done("filter_mailboxes_by_team")
    => IF arg2 \in {Null, VStr(<<>>), VStr(<<"N","O","_","T","E","A","M","_","I","D">>)}
       THEN ret = arg
       ELSE ret = VList(Pick(arg.v, {i \in 1..Len(arg.v) :
                                       /\ arg.v[i].v["teamID"].t = arg2.t
                                       /\ arg.v[i].v["teamID"].v = arg2.v}))

C9_Witness ==
    /\ Done("filter_mailboxes_by_team")
    /\ arg2 = VStr(<<"T","E","A","M","_","1">>)
    /\ Len(arg.v) = 3
    /\ \A i \in 1..3 : arg.v[i].v["teamID"] = VStr(<<"t","e","a","m","_","1">>)
    /\ ret = VList(<<>>)

\* the priority an entry is ordered by
OrderPriority(m) == IF "priority" \in DOMAIN m.v THEN m.v["priority"].v ELSE 5

\* C10: the priority sort returns a permutation of its input (same entries,
\* same multiplicity) in ascending priority, an entry without priority
\* counting as priority 5, entries of equal priority in ascending
\* mailboxName; the input sequence is not modified.
C10_PrioritySort ==
    [][ (pc = "ready" /\ call = "sort_mailboxes_by_priority")
        => /\ arg' = arg
           /\ ret'.t = "list"
           /\ Len(ret'.v) = Len(arg.v)
           /\ \A x \in Range(arg.v) \cup Range(ret'.v) :
                  Count(x, ret'.v) = Count(x, arg.v)
           /\ \A i, j \in 1..Len(ret'.v) :
                  i < j =>
                    \/ OrderPriority(ret'.v[i]) < OrderPriority(ret'.v[j])
                    \/ /\ OrderPriority(ret'.v[i]) = OrderPriority(ret'.v[j])
                       /\ ~StrLess(ret'.v[j].v["mailboxName"].v,
                                   ret'.v[i].v["mailboxName"].v) ]_vars

C10_Witness ==
    /\ Done("sort_mailboxes_by_priority")
    /\ Len(arg.v) = 3
    /\ "priority" \notin DOMAIN arg.v[1].v
    /\ arg.v[1].v["mailboxName"] = VStr(<<"a","b">>)
    /\ arg.v[2].v["mailboxName"] = VStr(<<"a">>)
    /\ "priority" \in DOMAIN arg.v[2].v
    /\ arg.v[2].v["priority"] = VInt(5)
    /\ "priority" \in DOMAIN arg.v[3].v
    /\ arg.v[3].v["priority"] = VInt(3)
    /\ ret = VList(<<arg.v[3], arg.v[2], arg.v[1]>>)

----------------------------------------------------------------------------
(* C11 - C12: a sorted sample, and the output assembly *)

\* C11 (as stated): sorting [inbox1 (no priority), inbox2 (priority 3),
\* inbox3 (priority 7)] yields the order [inbox2, inbox3, inbox1].
C11_SampleOrder_AsStated ==
    (Done("sort_mailboxes_by_priority") /\ arg = VList(DefaultPrioritySample))
    => ret = VList(<<DefaultPrioritySample[2], DefaultPrioritySample[3],
                     DefaultPrioritySample[1]>>)

\* C11 (amended): sorting [inbox1 (no priority), inbox2 (priority 3),
\* inbox3 (priority 7)] yields the order [inbox2, inbox1, inbox3]: inbox1
\* is ordered by the default priority 5, between 3 and 7.
C11_SampleOrder ==
    (Done("sort_mailboxes_by_priority") /\ arg = VList(DefaultPrioritySample))
    => ret = VList(<<DefaultPrioritySample[2], DefaultPrioritySample[1],
                     DefaultPrioritySample[3]>>)

C11_Witness ==
    /\ Done("sort_mailboxes_by_priority")
    /\ arg = VList(DefaultPrioritySample)
    /\ ret.v[2].v["mailboxName"] = VStr(<<"i","n","b","o","x","1">>)

\* the sum of the priorities, an entry without priority counting 5
RECURSIVE PrioritySum(_, _)
PrioritySum(s, n) ==
    IF n = 0 THEN 0
    ELSE PrioritySum(s, n - 1)
           + (IF "priority" \in DOMAIN s[n].v THEN s[n].v["priority"].v ELSE 5)

\* C12: in the assembled output total_mailboxes is the length of the
\* sequence, ops_mailboxes and claims_mailboxes count the entries of type
\* "ops" and "claims", active_mailboxes counts the entries whose isActive is
\* true or missing, average_priority is the sum of the priorities divided by
\* the length and 0 for the empty sequence; the output carries the input
\* sequence unchanged and leaves timestamp unset.
C12_OutputAssembly ==
    Done("prepare_mailbox_list_output")
    => LET s == arg.v
           idx == 1..Len(s)
           summary == ret.v["summary"].v
           avg == summary["average_priority"]
       IN  /\ exc = NoExc
           /\ summary["total_mailboxes"] = VInt(Len(s))
           /\ summary["ops_mailboxes"] =
                  VInt(Cardinality({i \in idx : s[i].v["mailboxType"].v = <<"o","p","s">>}))
           /\ summary["claims_mailboxes"] =
                  VInt(Cardinality({i \in idx : s[i].v["mailboxType"].v = <<"c","l","a","i","m","s">>}))
           /\ summary["active_mailboxes"] =
                  VInt(Cardinality({i \in idx : \/ "isActive" \notin DOMAIN s[i].v
                                              \/ s[i].v["isActive"] = VBool(TRUE)}))
           /\ IF s = <<>>
              THEN avg = VInt(0)
              ELSE /\ avg.t = "float"
                   /\ avg.v[2] > 0
                   /\ avg.v[1] * Len(s) = PrioritySum(s, Len(s)) * avg.v[2]
           /\ ret.v["mailboxes"] = arg
           /\ ret.v["timestamp"] = Null

C12_Witness ==
    /\ Done("prepare_mailbox_list_output")
    /\ Len(arg.v) = 3
    /\ ret.v["summary"].v["ops_mailboxes"] = VInt(1)
    /\ ret.v["summary"].v["claims_mailboxes"] = VInt(1)
    /\ ret.v["summary"].v["active_mailboxes"] = VInt(2)
    /\ "isActive" \notin DOMAIN arg.v[1].v
    /\ "priority" \notin DOMAIN arg.v[1].v
    /\ ret.v["summary"].v["average_priority"] = VFloat(10, 3)

----------------------------------------------------------------------------
(* C13: the Mailbox List Builder end to end *)

\* the retrieval gave the handler a configuration that collection validation
\* accepts
ValidatedRun ==
    /\ Done("inbox_lister.lambda_handler")
    /\ "s3_bucket_name" \in DOMAIN arg.v
    /\ Truthy(arg.v["s3_bucket_name"])
    /\ arg2.download.exc = NoExc
    /\ Truthy(arg2.download.val)
    /\ validate_mailbox_configuration(arg2.download.val).exc = NoExc

\* C13: for every event with a non-empty s3_bucket_name and every retrieved
\* configuration on which collection validation succeeds, the handler
\* returns statusCode 200 whose body.mailboxes is
\* sort(filter(validate(config), event.team_id)) and whose summary is
\* computed over that final sequence; for the configuration of section 8
\* without team filter the mailboxes are [b, a], total_mailboxes = 2 and
\* ops_mailboxes = 1.
C13_EndToEnd ==
    ValidatedRun
    => LET team == IF "team_id" \in DOMAIN arg.v THEN arg.v["team_id"] ELSE Null
           final == sort_mailboxes_by_priority(
                        filter_mailboxes_by_team(
                            validate_mailbox_configuration(arg2.download.val).val, team))
       IN  /\ exc = NoExc
           /\ ret.t = "dict"
           /\ ret.v["statusCode"] = VInt(200)
           /\ ret.v["body"].v.v["mailboxes"] = final
           /\ ret.v["body"].v.v["summary"].v["total_mailboxes"] = VInt(Len(final.v))
           /\ (arg2.download.val = ScenarioConfig /\ ~Truthy(team))
              => /\ Len(final.v) = 2
                 /\ final.v[1].v["mailboxName"] = VStr(<<"b">>)
                 /\ final.v[2].v["mailboxName"] = VStr(<<"a">>)
                 /\ ret.v["body"].v.v["summary"].v["ops_mailboxes"] = VInt(1)

----------------------------------------------------------------------------
(* C15 to C18: the Upload Notification Handler *)

\* the handler has run on an event of the inbound shape of section 6: a
\* mapping of JSON values whose "Records", when present, is a sequence
UploadRun ==
    /\ Done("email_receiver.lambda_handler")
    /\ arg.t = "dict"
    /\ JsonEncodable(arg)
    /\ "Records" \in DOMAIN arg.v => arg.v["Records"].t = "list"

\* position of the first record whose eventSource is "aws:s3"; 0 if none
FirstS3(records) ==
    LET from_s3 == {i \in 1..Len(records) :
                      /\ records[i].t = "dict"
                      /\ "eventSource" \in DOMAIN records[i].v
                      /\ records[i].v["eventSource"] = VStr(<<"a","w","s",":","s","3">>)}
    IN  IF from_s3 = {} THEN 0 ELSE CHOOSE i \in from_s3 : \A j \in from_s3 : i <= j

\* the record holds s3.<outer>.<inner>
HasPath(record, outer, inner) ==
    /\ "s3" \in DOMAIN record.v
    /\ record.v["s3"].t = "dict"
    /\ outer \in DOMAIN record.v["s3"].v
    /\ record.v["s3"].v[outer].t = "dict"
    /\ inner \in DOMAIN record.v["s3"].v[outer].v

\* the records before position k are mappings, as section 6 has them
MappingsBefore(records, k) == \A i \in 1..(k - 1) : records[i].t = "dict"

\* str() of the fault of the extraction: the quoted name of the first key
\* the subscript chains do not find, or the complaint about a level that is
\* not a mapping
ExpectedDescription(record) ==
    LET NotSubscriptable(x) == "'" \o TypeName(x) \o "' object is not subscriptable"
        s3 == record.v["s3"]
    IN  CASE "s3" \notin DOMAIN record.v -> "'s3'"
          [] s3.t # "dict" -> NotSubscriptable(s3)
          [] "bucket" \notin DOMAIN s3.v -> "'bucket'"
          [] s3.v["bucket"].t # "dict" -> NotSubscriptable(s3.v["bucket"])
          [] "name" \notin DOMAIN s3.v["bucket"].v -> "'name'"
          [] "object" \notin DOMAIN s3.v -> "'object'"
          [] s3.v["object"].t # "dict" -> NotSubscriptable(s3.v["object"])
          [] OTHER -> "'key'"

Body(response) == response.v["body"].v.v

\* C15: for every event whose Records hold a record with eventSource
\* "aws:s3" and whose first such record has bucket.name and object.key (a
\* string), the handler returns statusCode 200 with body.status "success"
\* and body.details.bucket / body.details.file equal to that record's bucket
\* name and object key; the records before it are skipped and the records
\* after it are not examined.
C15_FirstS3RecordWins ==
    (/\ UploadRun
     /\ "Records" \in DOMAIN arg.v
     /\ FirstS3(arg.v["Records"].v) # 0
     /\ MappingsBefore(arg.v["Records"].v, FirstS3(arg.v["Records"].v))
     /\ HasPath(arg.v["Records"].v[FirstS3(arg.v["Records"].v)], "bucket", "name")
     /\ HasPath(arg.v["Records"].v[FirstS3(arg.v["Records"].v)], "object", "key")
     /\ arg.v["Records"].v[FirstS3(arg.v["Records"].v)].v["s3"].v["object"].v["key"].t = "str")
    => LET k == FirstS3(arg.v["Records"].v)
           first == arg.v["Records"].v[k].v["s3"].v
       IN  /\ exc = NoExc
           /\ ret.t = "dict"
           /\ ret.v["statusCode"] = VInt(200)
           /\ Body(ret)["status"] = VText("success")
           /\ Body(ret)["details"].v["bucket"] = first["bucket"].v["name"]
           /\ Body(ret)["details"].v["file"] = first["object"].v["key"]
           /\ io = [i \in 1..k |-> [fn |-> "record", a |-> i]]

\* a record from another source, then the S3 record of bucket2, then an
\* entry that is not even a mapping
C15_Witness ==
    /\ UploadRun
    /\ "Records" \in DOMAIN arg.v
    /\ Len(arg.v["Records"].v) = 3
    /\ FirstS3(arg.v["Records"].v) = 2
    /\ arg.v["Records"].v[1].t = "dict"
    /\ "eventSource" \in DOMAIN arg.v["Records"].v[1].v
    /\ arg.v["Records"].v[3] = Null
    /\ ret.t = "dict"
    /\ ret.v["statusCode"] = VInt(200)
    /\ Body(ret)["details"].v["bucket"] = VStr(<<"b","u","c","k","e","t","2">>)
    /\ Len(io) = 2

\* C16: an event mapping without a "Records" key gets statusCode 400 with
\* the error "Invalid event - no records" and no record is processed; an
\* event whose Records sequence, possibly empty, holds no record with
\* eventSource "aws:s3" gets statusCode 400 with the error
\* "No S3 events found" after every record of the sequence was taken up.
C16_BadRequestOutcomes ==
    UploadRun
    => /\ "Records" \notin DOMAIN arg.v
          => /\ exc = NoExc
             /\ ret = Response(400, [error |-> VText("Invalid event - no records")])
             /\ io = <<>>
       /\ (/\ "Records" \in DOMAIN arg.v
           /\ FirstS3(arg.v["Records"].v) = 0
           /\ MappingsBefore(arg.v["Records"].v, Len(arg.v["Records"].v) + 1))
          => /\ exc = NoExc
             /\ ret = Response(400, [error |-> VText("No S3 events found")])
             /\ io = [i \in 1..Len(arg.v["Records"].v) |-> [fn |-> "record", a |-> i]]

\* three records, none from S3
C16_Witness ==
    /\ UploadRun
    /\ "Records" \in DOMAIN arg.v
    /\ Len(arg.v["Records"].v) = 3
    /\ FirstS3(arg.v["Records"].v) = 0
    /\ MappingsBefore(arg.v["Records"].v, 4)
    /\ ret.t = "dict"
    /\ ret.v["statusCode"] = VInt(400)
    /\ Len(io) = 3

\* C17: when the first record with eventSource "aws:s3" lacks bucket.name
\* or object.key, the handler returns statusCode 500 with body.error
\* "Internal server error" and body.details the description of the fault,
\* and takes up no later record.
C17_InternalError ==
    (/\ UploadRun
     /\ "Records" \in DOMAIN arg.v
     /\ FirstS3(arg.v["Records"].v) # 0
     /\ MappingsBefore(arg.v["Records"].v, FirstS3(arg.v["Records"].v))
     /\ \/ ~HasPath(arg.v["Records"].v[FirstS3(arg.v["Records"].v)], "bucket", "name")
        \/ ~HasPath(arg.v["Records"].v[FirstS3(arg.v["Records"].v)], "object", "key"))
    => LET k == FirstS3(arg.v["Records"].v)
       IN  /\ exc = NoExc
           /\ ret = Response(500,
                      [ error |-> VText("Internal server error"),
                        details |-> VText(ExpectedDescription(arg.v["Records"].v[k])) ])
           /\ io = [i \in 1..k |-> [fn |-> "record", a |-> i]]

\* an S3 record without object.key, followed by a complete S3 record
C17_Witness ==
    /\ UploadRun
    /\ "Records" \in DOMAIN arg.v
    /\ Len(arg.v["Records"].v) = 2
    /\ FirstS3(arg.v["Records"].v) = 1
    /\ HasPath(arg.v["Records"].v[1], "bucket", "name")
    /\ ~HasPath(arg.v["Records"].v[1], "object", "key")
    /\ FirstS3(<<arg.v["Records"].v[2]>>) = 1
    /\ HasPath(arg.v["Records"].v[2], "object", "key")
    /\ ret.t = "dict"
    /\ ret.v["statusCode"] = VInt(500)
    /\ Body(ret)["details"] \in {VText("'key'"), VText("'object'")}

\* C18: for every event payload, of any shape and any value types, the
\* invocation returns a mapping {statusCode, body} with statusCode 200, 400
\* or 500 and a JSON-encoded body; no fault reaches the caller.
C18_AlwaysStructuredResponse ==
    Done("email_receiver.lambda_handler")
    => /\ exc = NoExc
       /\ ret.t = "dict"
       /\ DOMAIN ret.v = {"statusCode", "body"}
       /\ ret.v["statusCode"] \in {VInt(200), VInt(400), VInt(500)}
       /\ ret.v["body"].t = "json"

----------------------------------------------------------------------------
(* C19 and C20: domain extraction and validation *)

\* the row holds the column the mapping gives for name
HoldsColumn(row, column_map, name) ==
    /\ name \in DOMAIN column_map.v
    /\ column_map.v[name].v >= 0
    /\ column_map.v[name].v < Len(row.v)

HoldsAll(row, column_map) ==
    \A name \in {"ID", "From", "Category"} : HoldsColumn(row, column_map, name)

Cell(row, column_map, name) == row.v[column_map.v[name].v + 1]

\* t is s without leading and trailing whitespace
TrimOf(s, t) ==
    /\ \E i \in 0..Len(s) : \E j \in i..Len(s) : t = SubSeq(s, i + 1, j)
    /\ t = <<>> => \A i \in 1..Len(s) : s[i] \in {" ", "\t", "\n"}
    /\ t # <<>> => /\ t[1] \notin {" ", "\t", "\n"}
                   /\ t[Len(t)] \notin {" ", "\t", "\n"}
                   /\ \E i \in 0..Len(s) :
                        /\ t = SubSeq(s, i + 1, i + Len(t))
                        /\ \A k \in (1..i) \cup ((i + Len(t) + 1)..Len(s)) :
                             s[k] \in {" ", "\t", "\n"}

\* C19: for every sequence of rows (tuples) and every column-name-to-index
\* mapping, process_domain_data returns one entry for each row that holds
\* all three mapped columns ID, From and Category, in row order, with id and
\* category the str() of the cells, from the str() of the cell lowercased
\* and trimmed, and is_active true; a row lacking a column is skipped and
\* never makes the call fail.
C19_DomainExtraction ==
    (/\ Done("process_domain_data")
     /\ \A i \in 1..Len(arg.v) : arg.v[i].t = "list")
    => LET holding == Pick(arg.v, {i \in 1..Len(arg.v) : HoldsAll(arg.v[i], arg2)})
       IN  /\ exc = NoExc
           /\ ret.t = "list"
           /\ Len(ret.v) = Len(holding)
           /\ \A i \in 1..Len(holding) :
                /\ ret.v[i].v["id"] = VStr(PyStr(Cell(holding[i], arg2, "ID")))
                /\ ret.v[i].v["category"] = VStr(PyStr(Cell(holding[i], arg2, "Category")))
                /\ TrimOf(Lower(PyStr(Cell(holding[i], arg2, "From"))), ret.v[i].v["from"].v)
                /\ ret.v[i].v["is_active"] = VBool(TRUE)

\* a short row between two rows that hold the three columns, the from cell
\* of the first in upper case with whitespace around it
C19_Witness ==
    /\ Done("process_domain_data")
    /\ Len(arg.v) = 3
    /\ \A i \in 1..3 : arg.v[i].t = "list"
    /\ HoldsAll(arg.v[1], arg2)
    /\ ~HoldsAll(arg.v[2], arg2)
    /\ HoldsAll(arg.v[3], arg2)
    /\ exc = NoExc
    /\ ret.t = "list"
    /\ Len(ret.v) = 2
    /\ ret.v[1].v["from"] = VStr(<<"a","@","b",".","c">>)
    /\ Cell(arg.v[1], arg2, "From") # VStr(<<"a","@","b",".","c">>)

\* the part of s after its last "@"
AfterLastAt(s) ==
    CHOOSE t \in {SubSeq(s, i + 1, Len(s)) : i \in 0..Len(s)} :
        /\ \A k \in 1..Len(t) : t[k] # "@"
        /\ Len(t) < Len(s) => s[Len(s) - Len(t)] = "@"
        /\ (\A k \in 1..Len(s) : s[k] # "@") => t = s

\* the entry is one the claim says is dropped
Dropped(domain) ==
    LET from == IF "from" \in DOMAIN domain.v THEN domain.v["from"].v ELSE <<>>
    IN  \/ from = <<>>
        \/ \A k \in 1..Len(from) : from[k] # "@"
        \/ AfterLastAt(from) = <<>>
        \/ \A k \in 1..Len(AfterLastAt(from)) : AfterLastAt(from)[k] # "."

\* C20: for every sequence of extracted entries, validate_and_filter_domains
\* raises nothing and drops an entry exactly when its from is empty, or has
\* no "@", or the part after the last "@" is empty or has no "."; every
\* other entry survives in the original order with id, from and category
\* unchanged, domain_part the substring after the last "@" and
\* is_valid_format true.
C20_DomainValidation ==
    Done("validate_and_filter_domains")
    => LET surviving == Pick(arg.v, {i \in 1..Len(arg.v) : ~Dropped(arg.v[i])})
       IN  /\ exc = NoExc
           /\ ret.t = "list"
           /\ Len(ret.v) = Len(surviving)
           /\ \A i \in 1..Len(surviving) :
                /\ \A k \in {"id", "from", "category"} : ret.v[i].v[k] = surviving[i].v[k]
                /\ ret.v[i].v["domain_part"] = VStr(AfterLastAt(surviving[i].v["from"].v))
                /\ ret.v[i].v["is_valid_format"] = VBool(TRUE)

\* an entry with two "@" survives with the part after the second one, next
\* to an entry that is dropped
C20_Witness ==
    /\ Done("validate_and_filter_domains")
    /\ Len(arg.v) = 2
    /\ Dropped(arg.v[1])
    /\ "from" \in DOMAIN arg.v[2].v
    /\ arg.v[2].v["from"] = VStr(<<"a","@","a","@","a",".","a">>)
    /\ exc = NoExc
    /\ ret.t = "list"
    /\ Len(ret.v) = 1
    /\ ret.v[1].v["domain_part"] = VStr(<<"a",".","a">>)

----------------------------------------------------------------------------
(* C14: a missing required parameter is fatal before any collaborator *)

\* the event mapping carries no non-empty value under key
Missing(event, key) == key \notin DOMAIN event.v \/ ~Truthy(event.v[key])

\* C14: the Mailbox List Builder invoked with s3_bucket_name absent or
\* empty raises EAWS014 without any storage read; the Domain Refresh
\* Pipeline invoked with neither id nor correlation_id non-empty raises
\* EAWS001 without a call to the parameter store, the object storage or the
\* database.
C14_MissingParameterIsFatalFirst ==
    /\ (/\ Done("inbox_lister.lambda_handler")
        /\ Missing(arg, "s3_bucket_name"))
       => /\ exc = SystemException(<<"EAWS014">>, <<>>)
          /\ io = <<>>
    /\ (/\ Done("valid_domains.lambda_handler")
        /\ arg.t = "dict"
        /\ Missing(arg, "id")
        /\ Missing(arg, "correlation_id"))
       => /\ exc = SystemException(<<"EAWS001">>, <<>>)
          /\ io = <<>>

\* the pipeline was invoked with an empty id and an empty correlation_id
\* while every collaborator stood ready to answer
C14_Witness ==
    /\ Done("valid_domains.lambda_handler")
    /\ arg.t = "dict"
    /\ DOMAIN arg.v = {"id", "correlation_id"}
    /\ Missing(arg, "id")
    /\ Missing(arg, "correlation_id")
    /\ arg2.parameters.exc = NoExc
    /\ Truthy(arg2.parameters.val)
    /\ arg2.download.exc = NoExc
    /\ arg2.query.exc = NoExc
    /\ exc.type = "SystemException"
    /\ io = <<>>

----------------------------------------------------------------------------
(* C21 - C28: the Domain Refresh Pipeline as a whole *)

\* the pipeline was invoked with an event mapping carrying an identifier
DomainRun ==
    /\ Done("valid_domains.lambda_handler")
    /\ arg.t = "dict"
    /\ ~(Missing(arg, "id") /\ Missing(arg, "correlation_id"))

\* the collaborators let the invocation start and GetParameters,
\* LoadMailboxConfig and PersistMergedConfig succeed
ConfigStagesSucceed(env) ==
    /\ env.set_extra_log_attributes.exc = NoExc
    /\ env.parameters.exc = NoExc
    /\ env.parameters.val.t = "dict"
    /\ "s3_bucket_name" \in DOMAIN env.parameters.val.v
    /\ Truthy(env.parameters.val.v["s3_bucket_name"])
    /\ env.download.exc = NoExc
    /\ env.upload_config.exc = NoExc

\* the database query answers with zero rows
QueryReturnsNoRows(env) ==
    /\ env.query.exc = NoExc
    /\ env.query.val.v[1].v = <<>>

\* the database query answers with rows, extraction succeeds, and no
\* extracted entry survives validation
NoDomainSurvives(env) ==
    /\ env.query.exc = NoExc
    /\ env.query.val.v[1].v # <<>>
    /\ process_domain_data(env.query.val.v[1], env.query.val.v[2]).exc = NoExc
    /\ validate_and_filter_domains(
           process_domain_data(env.query.val.v[1], env.query.val.v[2]).val).val.v = <<>>

\* the number of upload_to_s3 calls of the invocation that write to path
Writes(path) ==
    Cardinality({i \in 1..Len(io) :
                   /\ io[i].fn = "upload_to_s3"
                   /\ io[i].a.s3_file_path = path})

\* C21: the pipeline fails with NoDomainsFound (EAWS007) when the database
\* query returns zero rows, and with the same kind EAWS007 when zero domains
\* remain after validation at the persistence step; in the second case the
\* domains document is not written.
C21_NoDomainsFoundTwice ==
    /\ (DomainRun /\ ConfigStagesSucceed(arg2) /\ QueryReturnsNoRows(arg2))
       => /\ exc.type = "SystemException"
          /\ KindAtCaller = "EAWS007"
    /\ (DomainRun /\ ConfigStagesSucceed(arg2) /\ NoDomainSurvives(arg2))
       => /\ exc.type = "SystemException"
          /\ KindAtCaller = "EAWS007"
          /\ Writes("domains_json_file") = 0

\* the first non-empty of the event fields correlation_id, id, in that order
FirstNonEmptyIdentifier(event) ==
    IF ~Missing(event, "correlation_id") THEN event.v["correlation_id"]
    ELSE event.v["id"]

\* the entries that survive validation of the rows the query answers with
ValidatedDomainsOf(env) ==
    validate_and_filter_domains(
        process_domain_data(env.query.val.v[1], env.query.val.v[2]).val).val.v

\* C22: the identifier the pipeline uses is the first non-empty of the event
\* fields correlation_id, id, consulted in that order; every collaborator
\* call carries it, and on success the response returned is
\* {correlation_id, s3_bucket_name, domain_count, status} with that
\* identifier as correlation_id and domain_count the number of validated
\* domains.
C22_CorrelationIdentifier ==
    DomainRun
    => /\ \A i \in 1..Len(io) :
            io[i].fn # "get_all_parameters"
            => io[i].a.correlation_id = FirstNonEmptyIdentifier(arg)
       /\ (exc = NoExc /\ ret # Null)
          => /\ ret.t = "dict"
             /\ DOMAIN ret.v = {"correlation_id", "s3_bucket_name", "domain_count", "status"}
             /\ ret.v["correlation_id"] = FirstNonEmptyIdentifier(arg)
             /\ ret.v["s3_bucket_name"] = arg2.parameters.val.v["s3_bucket_name"]
             /\ ret.v["domain_count"] = VInt(Len(ValidatedDomainsOf(arg2)))
             /\ ret.v["status"] = VStr(<<"s","u","c","c","e","s","s">>)

----------------------------------------------------------------------------
(* C23, C24: recognized kinds and unrecognized faults at the boundary *)

\* an invocation of the Mailbox List Builder or of the Domain Refresh
\* Pipeline has ended
BoundaryReached ==
    Done("inbox_lister.lambda_handler") \/ Done("valid_domains.lambda_handler")

\* the calls of the generic exception handler made by the invocation
GenericHandlerCalls == {i \in 1..Len(io) : io[i].fn = "handle_exception"}

\* C23: in the Mailbox List Builder and the Domain Refresh Pipeline a
\* failure of a recognized kind raised inside a stage reaches the invocation
\* boundary as that same kind: the kind the caller receives is the kind that
\* was raised, the generic handler is not called, and a configuration whose
\* collection validation fails with a kind ends the Mailbox List Builder
\* with that kind.
C23_RecognizedKindsPropagate ==
    /\ (BoundaryReached /\ exc.type = "SystemException")
       => /\ KindAtCaller = KindRaised
          /\ GenericHandlerCalls = {}
    /\ (/\ Done("inbox_lister.lambda_handler")
        /\ ~Missing(arg, "s3_bucket_name")
        /\ arg2.download.exc = NoExc
        /\ Truthy(arg2.download.val)
        /\ ExpectedKind(arg2.download.val) # "none")
       => /\ exc.type = "SystemException"
          /\ KindAtCaller = ExpectedKind(arg2.download.val)

\* a fault that is no SystemException occurs in the try block: in the
\* Mailbox List Builder sum() meets a priority that is no number among the
\* mailboxes left by the team filter, in the Domain Refresh Pipeline
\* set_extra_log_attributes faults
UnrecognizedFaultOccurs ==
    \/ /\ ValidatedRun
       /\ SumRaises(filter_mailboxes_by_team(
                        validate_mailbox_configuration(arg2.download.val).val,
                        Get(arg.v, "team_id", VStr(NO_TEAM_ID))).v)
    \/ /\ DomainRun
       /\ arg2.set_extra_log_attributes.exc # NoExc

\* the identifiers of the invocation: the event's correlation_id in the
\* Mailbox List Builder, the non-empty ones of id and correlation_id in the
\* Domain Refresh Pipeline; the sentinel when the event has none
BestAvailableIdentifiers(event) ==
    LET own == IF call = "inbox_lister.lambda_handler"
               THEN {event.v[k] : k \in {"correlation_id"} \cap DOMAIN event.v}
               ELSE {event.v[k] : k \in {k \in {"id", "correlation_id"} \cap DOMAIN event.v :
                                           Truthy(event.v[k])}}
    IN  IF own = {} THEN {VStr(NO_CORRELATION_ID)} ELSE own

----------------------------------------------------------------------------
(* C25: a retrieval that returns nothing *)

\* download_json_from_s3 returned null or an empty document
RetrievedNothing(env) ==
    /\ env.download.exc = NoExc
    /\ ~Truthy(env.download.val)

\* the calls made after the storage read of the invocation
CallsAfterRetrieval ==
    {i \in 1..Len(io) :
       \E j \in 1..Len(io) : j < i /\ io[j].fn = "download_json_from_s3"}

\* C25: a retrieval of the mailbox configuration that returns null or an
\* empty document fails with ConfigRetrievalFailed (EAWS008), in the Mailbox
\* List Builder and in the LoadMailboxConfig stage of the Domain Refresh
\* Pipeline; no later stage runs and nothing is written.
C25_EmptyRetrievalFails ==
    /\ (/\ Done("inbox_lister.lambda_handler")
        /\ ~Missing(arg, "s3_bucket_name")
        /\ RetrievedNothing(arg2))
       => /\ exc.type = "SystemException"
          /\ KindAtCaller = "EAWS008"
          /\ CallsAfterRetrieval = {}
    /\ (/\ DomainRun
        /\ arg2.set_extra_log_attributes.exc = NoExc
        /\ arg2.parameters.exc = NoExc
        /\ arg2.parameters.val.t = "dict"
        /\ "s3_bucket_name" \in DOMAIN arg2.parameters.val.v
        /\ Truthy(arg2.parameters.val.v["s3_bucket_name"])
        /\ RetrievedNothing(arg2))
       => /\ exc.type = "SystemException"
          /\ KindAtCaller = "EAWS008"
          /\ CallsAfterRetrieval = {}

----------------------------------------------------------------------------
(* C26: the timestamp of the Mailbox List Builder's response *)

\* the retrieval step of the Mailbox List Builder succeeded
RetrievalSucceeds ==
    /\ Done("inbox_lister.lambda_handler")
    /\ ~Missing(arg, "s3_bucket_name")
    /\ arg2.download.exc = NoExc
    /\ Truthy(arg2.download.val)

\* C26: whenever s3_bucket_name is non-empty and the retrieval of the
\* configuration succeeds, the configuration {"mailboxes": []} included, the
\* Mailbox List Builder returns a response whose body carries the timestamp
\* the handler sets at response time, the clock reading followed by "Z".
C26_TimestampOnResponse ==
    RetrievalSucceeds
    => /\ exc = NoExc
       /\ ret.t = "dict"
       /\ Body(ret)["timestamp"] = VStr(arg2.now \o <<"Z">>)

----------------------------------------------------------------------------
(* C27: the order of the stages, over the stage-by-stage run *)

\* the positions in the call log of the calls of fn, and of the writes to path
CallsOf(fn) == {i \in 1..Len(io) : io[i].fn = fn}

WritesTo(path) ==
    {i \in 1..Len(io) : io[i].fn = "upload_to_s3" /\ io[i].a.s3_file_path = path}

\* the invocation returned its success response
SuccessResponse ==
    /\ pc = "done"
    /\ exc = NoExc
    /\ ret.t = "dict"

\* C27: in every invocation of the Domain Refresh Pipeline the stages that
\* have run are an initial part of GetParameters, LoadMailboxConfig,
\* PersistMergedConfig, QueryDomainsFromDB, ExtractDomainRows,
\* ValidateDomains, PersistDomains, BuildSummary, so each runs at most once
\* and in that order; a step runs one stage, and only while no stage has
\* failed and the invocation has not ended; the write of the merged
\* configuration precedes the database query and the write of the domains;
\* a success response implies that all eight stages ran and that each of
\* the two documents was written exactly once.
C27_StageOrdering ==
    /\ [](arg3.ran = SubSeq(Stages, 1, Len(arg3.ran)))
    /\ [][ arg3'.ran # arg3.ran
           => /\ exc = NoExc
              /\ pc = Stages[Len(arg3.ran) + 1]
              /\ arg3'.ran = Append(arg3.ran, pc) ]_vars
    /\ [][ (pc = "done" \/ exc # NoExc) => arg3'.ran = arg3.ran ]_vars
    /\ [](\A j \in CallsOf("run_stored_procedure") \cup WritesTo("domains_json_file") :
            \E i \in WritesTo("config_json_file") : i < j)
    /\ [](SuccessResponse
          => /\ arg3.ran = Stages
             /\ Cardinality(WritesTo("config_json_file")) = 1
             /\ Cardinality(WritesTo("domains_json_file")) = 1)

\* an invocation ran all eight stages and returned its success response
\* after the five collaborator calls
C27_Witness ==
    /\ SuccessResponse
    /\ arg3.ran = Stages
    /\ Len(io) = 5
    /\ io[3].fn = "upload_to_s3"
    /\ io[4].fn = "run_stored_procedure"
    /\ io[5].fn = "upload_to_s3"
    /\ arg3.response.t = "dict"

----------------------------------------------------------------------------
(* C28: no rollback *)

\* a stage after PersistMergedConfig fails: the query faults or returns no
\* rows, extraction fails, no domain survives validation, or the write of
\* the domains faults
LaterStageFails(env) ==
    \/ env.query.exc # NoExc
    \/ QueryReturnsNoRows(env)
    \/ process_domain_data(env.query.val.v[1], env.query.val.v[2]).exc # NoExc
    \/ NoDomainSurvives(env)
    \/ env.upload_domains.exc # NoExc

\* the document at path is in storage after the invocation: a write to it
\* was issued and the store acknowledged it
Stored(path, outcome) == WritesTo(path) # {} /\ outcome.exc = NoExc

\* C28: when a stage after PersistMergedConfig fails, the merged
\* configuration written by the invocation stays in storage (it was written
\* once and every later call is the database query or the write of the
\* domains, no delete and no second write), the domains document is not
\* written by the invocation, and the invocation ends in failure.
C28_NoRollback ==
    (DomainRun /\ ConfigStagesSucceed(arg2) /\ LaterStageFails(arg2))
    => /\ Stored("config_json_file", arg2.upload_config)
       /\ Cardinality(WritesTo("config_json_file")) = 1
       /\ \A i \in WritesTo("config_json_file") : \A j \in 1..Len(io) :
            j > i => \/ io[j].fn = "run_stored_procedure"
                     \/ j \in WritesTo("domains_json_file")
       /\ ~Stored("domains_json_file", arg2.upload_domains)
       /\ exc.type = "SystemException"
       /\ ret = Null

\* no domain survived validation after the merged configuration was
\* written: the invocation failed at PersistDomains with the configuration
\* write and the query as its last calls
C28_Witness ==
    /\ DomainRun
    /\ ConfigStagesSucceed(arg2)
    /\ NoDomainSurvives(arg2)
    /\ arg2.upload_domains.exc = NoExc
    /\ Len(io) = 4
    /\ io[3].fn = "upload_to_s3"
    /\ io[3].a.s3_file_path = "config_json_file"
    /\ io[4].fn = "run_stored_procedure"
    /\ exc.type = "SystemException"

----------------------------------------------------------------------------
(* C29: invocations are independent, over a sequence of invocations *)

\* the correlation identifiers an outcome returns or passes to a
\* collaborator
IdentifiersOf(outcome) ==
    {outcome.io[i].a.correlation_id :
        i \in {i \in 1..Len(outcome.io) : outcome.io[i].fn # "get_all_parameters"}}
    \cup (IF outcome.val.t = "dict" /\ "correlation_id" \in DOMAIN outcome.val.v
          THEN {outcome.val.v["correlation_id"]} ELSE {})

----------------------------------------------------------------------------
(* C30: emptiness is judged before the team filter only *)

\* the event names a team and no mailbox left by collection validation
\* belongs to it
TeamMatchesNone ==
    /\ ValidatedRun
    /\ ~Missing(arg, "team_id")
    /\ arg.v["team_id"] # VStr(NO_TEAM_ID)
    /\ \A i \in 1..Len(validate_mailbox_configuration(arg2.download.val).val.v) :
          validate_mailbox_configuration(arg2.download.val).val.v[i].v["teamID"]
              # arg.v["team_id"]

\* C30: when collection validation yields at least one mailbox and the
\* event's team_id matches none of them, the Mailbox List Builder does not
\* fail: it returns statusCode 200 with an empty mailboxes sequence,
\* total_mailboxes = ops_mailboxes = claims_mailboxes = active_mailboxes = 0
\* and average_priority = 0.
C30_EmptyAfterFilterIsSuccess ==
    TeamMatchesNone
    => /\ exc = NoExc
       /\ ret.t = "dict"
       /\ ret.v["statusCode"] = VInt(200)
       /\ Body(ret)["mailboxes"] = VList(<<>>)
       /\ \A k \in {"total_mailboxes", "ops_mailboxes", "claims_mailboxes",
                    "active_mailboxes", "average_priority"} :
             Body(ret)["summary"].v[k] = VInt(0)
       /\ GenericHandlerCalls = {}

\* the team filter "team_3" removed both mailboxes of a validated
\* configuration and the handler answered with statusCode 200
C30_Witness ==
    /\ TeamMatchesNone
    /\ arg.v["team_id"] = VStr(<<"t","e","a","m","_","3">>)
    /\ Len(validate_mailbox_configuration(arg2.download.val).val.v) = 2
    /\ exc = NoExc
    /\ ret.t = "dict"
    /\ ret.v["statusCode"] = VInt(200)
    /\ Body(ret)["mailboxes"] = VList(<<>>)

====
